---- MODULE Spec2Model ----
(***************************************************************************)
(* Clawgate agent gateway: the action mediation pipeline (handle_action),  *)
(* the approval store and the idempotency store.                           *)
(*                                                                         *)
(* Request handlers are synchronous FastAPI endpoints, which the server    *)
(* runs on a thread pool: handlers of different requests interleave.  One  *)
(* step of the model is one access to shared mutable state (one dict       *)
(* lookup, scan or assignment of a store) or one plugin dispatch,          *)
(* together with the request-local computation around it.  Neither store   *)
(* takes a lock, so a method that reads and then writes (set_status) is    *)
(* two steps.                                                              *)
(*                                                                         *)
(* Spec       : two workers, each handling one request, and two           *)
(*              approvers, each making one set_status call, interleaved    *)
(*              at every step.                                             *)
(* SpecSeq    : the same steps, one operation at a time (serialized).      *)
(* SpecReplay : three workers, each handling one keyed execute of the      *)
(*              same action under the same key, interleaved.               *)
(* SpecRepeat : serialized executes of two actions, with previews and      *)
(*              dispatches that may raise.                                 *)
(* SpecGate   : serialized executes of one action by two agents under two  *)
(*              keys, around the approval or denial of its tickets.        *)
(* SpecCalls  : calls of the functions that touch no store (authenticate,  *)
(*              can, requires_approval, the admission of a request, the    *)
(*              read pipeline, the sidecar client, fetch_or_validate), on  *)
(*              inputs drawn from bounded sets.                            *)
(*                                                                         *)
(* done, sdone, served and presented are history variables: they record    *)
(* what was answered, and no step of the program reads them (the           *)
(* specifications use done and sdone to give each worker one request).     *)
(***************************************************************************)
EXTENDS Integers, Sequences, FiniteSets, TLC

VARIABLES
    tickets,      \* ApprovalStore._tickets: insertion-ordered, id = position
    records,      \* IdempotencyStore._records: record key -> record
    pc,           \* per worker: position inside handle_action
    req,          \* per worker: the request being handled
    loc,          \* per worker: locals of handle_action
    done,         \* per worker: the last exchange it completed
    spc,          \* per approver: position inside set_status
    sloc,         \* per approver: locals of set_status
    sdone,        \* per approver: the last set_status call it completed
    served,       \* (record key, request hash) -> first 200 body recorded
    presented,    \* (scope, key, request hash) of the keyed executes so far
    nreq,         \* action requests started so far
    nset,         \* set_status calls started so far
    probe         \* the last call of a pure function: operation, input, output

vars == <<tickets, records, pc, req, loc, done, spc, sloc, sdone, served,
          presented, nreq, nset, probe>>

----------------------------------------------------------------------------
(* Bounds of the model *)

MaxSeqReq == 2       \* action requests of a serialized behaviour
MaxSetStatus == 2    \* set_status calls of a serialized behaviour
MaxRepeat == 2       \* executes of a behaviour of repeated executes
MaxGateReq == 3      \* executes of a behaviour around one approval

Workers == {"w1", "w2", "w3"}
Pair == {"w1", "w2"}
Approvers == {"h1", "h2"}

----------------------------------------------------------------------------
(* Values *)

None == "None"                       \* Python None for string-valued fields
NoTicket == 0                        \* find_for_fingerprint returned None
NoCaps == <<>>

\* Capability ids and capability patterns are dotted names, kept as their
\* segments: "gmail.message.reply" is <<"gmail","message","reply">>.
CapReply == <<"gmail", "message", "reply">>
CapPlay == <<"apple_music", "playback", "play">>
CapRefresh == <<"find_my", "friends", "refresh">>
CapWipe == <<"vault", "store", "wipe">>

\* PluginActionManifest rows of the registered plugins.  "vault" is a
\* sidecar plugin: its manifest is whatever the sidecar serves, here one
\* dangerous action that does not support propose.
Manifests ==
    { [plugin_id |-> "gmail", name |-> "reply", resource |-> "messages",
       capability_id |-> CapReply, risk_tier |-> "transactional",
       supports_propose |-> TRUE, requires_idempotency |-> TRUE,
       mutating |-> TRUE],
      [plugin_id |-> "apple_music", name |-> "play", resource |-> None,
       capability_id |-> CapPlay, risk_tier |-> "routine",
       supports_propose |-> TRUE, requires_idempotency |-> FALSE,
       mutating |-> TRUE],
      [plugin_id |-> "find_my", name |-> "refresh", resource |-> None,
       capability_id |-> CapRefresh, risk_tier |-> "read_only",
       supports_propose |-> TRUE, requires_idempotency |-> FALSE,
       mutating |-> FALSE],
      [plugin_id |-> "vault", name |-> "wipe", resource |-> None,
       capability_id |-> CapWipe, risk_tier |-> "dangerous",
       supports_propose |-> FALSE, requires_idempotency |-> FALSE,
       mutating |-> TRUE] }

NoAction ==
    [plugin_id |-> None, name |-> None, resource |-> None,
     capability_id |-> NoCaps, risk_tier |-> None,
     supports_propose |-> FALSE, requires_idempotency |-> FALSE,
     mutating |-> FALSE]

\* AuthService._tokens: the development token, one narrow token and the
\* token of a second agent of the mailbox.
TokenRecords ==
    { [token |-> <<"dev-local-token">>, agent_id |-> "dev_local",
       tailscale_identity |-> "*", capabilities |-> {<<"*">>}],
      [token |-> <<"peer-token">>, agent_id |-> "peer",
       tailscale_identity |-> "*", capabilities |-> {<<"gmail", "*">>}],
      [token |-> <<"limited-token">>, agent_id |-> "limited",
       tailscale_identity |-> "tailnet://local/limited",
       capabilities |-> {<<"system", "plugins", "read">>, <<"find_my", "*">>}] }

NoPrincipal == [agent_id |-> None, tailscale_identity |-> None, capabilities |-> {}]

require_auth == TRUE                 \* Settings.require_auth
blocked_domains == {"blocked.example"}

RiskTiers == {"read_only", "routine", "transactional", "dangerous"}

\* _DEFAULT_APPROVAL_BY_RISK
DefaultApprovalByRisk ==
    [t \in RiskTiers |-> t \in {"transactional", "dangerous"}]

----------------------------------------------------------------------------
(* Responses.  A summary is kept as a tuple of its parts, <<>> for None. *)

NoBody == [code |-> None, message |-> None, result |-> <<>>, summary |-> <<>>,
           approval_ticket_id |-> NoTicket, proposed_effect |-> <<>>]

\* handle_api_error: {"error": {"code": ...}} with the error's status
ErrorResponse(status, code) ==
    [status_code |-> status, body |-> [NoBody EXCEPT !.code = code]]

\* handle_api_error with the message of the error.  Messages are kept for
\* the errors of authenticate; the other errors carry None.
ErrorWithMessage(status, code, message) ==
    [status_code |-> status,
     body |-> [NoBody EXCEPT !.code = code, !.message = message]]

\* ActionSuccessResponse(result, summary).model_dump()
SuccessBody(result, summary) ==
    [NoBody EXCEPT !.result = result, !.summary = summary]

\* ActionNeedsApprovalResponse(...).model_dump()
NeedsApprovalBody(id, summary, effect) ==
    [NoBody EXCEPT !.approval_ticket_id = id, !.summary = summary,
                   !.proposed_effect = effect]

NoResponse == [status_code |-> 0, body |-> NoBody]

----------------------------------------------------------------------------
(* core/auth.py *)

\* An Authorization header is kept as the text before its first space
\* (scheme) and the rest of the line (token), the rest as a sequence of
\* chunks, each a blank " " or a word; a missing header is scheme "" and
\* token <<>>.  A token of the service is the sequence of its words.
NoToken == <<>>

\* str.strip: leading and trailing blanks removed
RECURSIVE Strip(_)
Strip(chunks) ==
    IF chunks = <<>> THEN <<>>
    ELSE IF Head(chunks) = " " THEN Strip(Tail(chunks))
    ELSE IF chunks[Len(chunks)] = " "
    THEN Strip(SubSeq(chunks, 1, Len(chunks) - 1))
    ELSE chunks

\* Fault: the rest of the header is taken as the token without stripping.
ExtractBearerTokenUnstripped(headers) ==
    IF headers.authorization.scheme # "Bearer" THEN NoToken
    ELSE headers.authorization.token

\* AuthService._extract_bearer_token: NoToken when it raises
\* UnauthorizedError("missing bearer token").
ExtractBearerToken(headers) ==
    IF headers.authorization.scheme # "Bearer" THEN NoToken
    ELSE Strip(headers.authorization.token)

TokenLookup(token) ==
    IF \E r \in TokenRecords : r.token = token
    THEN CHOOSE r \in TokenRecords : r.token = token
    ELSE [token |-> NoToken, agent_id |-> None, tailscale_identity |-> None,
          capabilities |-> {}]

Unauthorized(message) ==
    [ok |-> FALSE, principal |-> NoPrincipal,
     error |-> ErrorWithMessage(401, "UNAUTHORIZED", message)]

\* Fault: the synthetic principal is given no capability.
AnonymousPrincipalWithoutCapabilities ==
    [agent_id |-> "anonymous", tailscale_identity |-> "*", capabilities |-> {}]

\* The principal of lines 44-48
AnonymousPrincipal ==
    [agent_id |-> "anonymous", tailscale_identity |-> "*",
     capabilities |-> {<<"*">>}]

\* AuthService.authenticate under a given require_auth setting:
\* [ok, principal, error], error being the rendering of the
\* UnauthorizedError it raises.
AuthenticateWith(required, headers) ==
    IF ~required
    THEN [ok |-> TRUE, principal |-> AnonymousPrincipal, error |-> NoResponse]
    ELSE LET token == ExtractBearerToken(headers)
             record == TokenLookup(token)
         IN  IF token = NoToken THEN Unauthorized("missing bearer token")
             ELSE IF headers.identity = ""
             THEN Unauthorized("missing X-Tailscale-Identity header")
             ELSE IF record.token = NoToken
             THEN Unauthorized("invalid bearer token")
             ELSE IF record.tailscale_identity \notin {"*", headers.identity}
             THEN Unauthorized("tailscale identity mismatch")
             ELSE [ok |-> TRUE,
                   principal |-> [agent_id |-> record.agent_id,
                                  tailscale_identity |-> headers.identity,
                                  capabilities |-> record.capabilities],
                   error |-> NoResponse]

\* AuthService.authenticate of the runtime
Authenticate(headers) == AuthenticateWith(require_auth, headers)

\* Fault: the prefix is compared without its final dot.
WildcardGrantsBare(capability, capability_id) ==
    /\ Len(capability) >= 2
    /\ capability[Len(capability)] = "*"
    /\ Len(capability_id) >= Len(capability) - 1
    /\ SubSeq(capability_id, 1, Len(capability) - 1)
         = SubSeq(capability, 1, Len(capability) - 1)

\* capability.endswith(".*") and capability_id.startswith(capability[:-1])
WildcardGrants(capability, capability_id) ==
    /\ Len(capability) >= 2
    /\ capability[Len(capability)] = "*"
    /\ Len(capability_id) >= Len(capability)
    /\ SubSeq(capability_id, 1, Len(capability) - 1)
         = SubSeq(capability, 1, Len(capability) - 1)

\* AgentPrincipal.can
Can(principal, capability_id) ==
    \/ <<"*">> \in principal.capabilities
    \/ capability_id \in principal.capabilities
    \/ \E capability \in principal.capabilities :
          WildcardGrants(capability, capability_id)

----------------------------------------------------------------------------
(* core/plugin_registry.py *)

PluginIds == {m.plugin_id : m \in Manifests}

\* Fault: a plugin-global action matches whatever resource is asked for.
ResolveActionGlobalAnywhere(plugin_id, action_name, resource) ==
    LET found == {m \in Manifests : /\ m.plugin_id = plugin_id
                                    /\ m.name = action_name
                                    /\ m.resource \in {resource, None}}
    IN  IF plugin_id \notin PluginIds \/ found = {} THEN NoAction
        ELSE CHOOSE m \in found : TRUE

\* PluginRegistry.resolve_action: NoAction when it raises NotFoundError
ResolveAction(plugin_id, action_name, resource) ==
    LET found == {m \in Manifests : /\ m.plugin_id = plugin_id
                                    /\ m.name = action_name
                                    /\ m.resource = resource}
    IN  IF plugin_id \notin PluginIds \/ found = {} THEN NoAction
        ELSE CHOOSE m \in found : TRUE

----------------------------------------------------------------------------
(* core/policy.py *)

\* An args object is a record from argument keys to JSON values.  A value
\* under an address key is a string, a list of values or something else (a
\* number); a string is the sequence of its chunks, each a blank " ", an
\* "@" or a word without blanks and without "@".
StrOf(chunks) == [type |-> "str", chunks |-> chunks, items |-> <<>>]
ListOf(items) == [type |-> "list", chunks |-> <<>>, items |-> items]
NotStr == [type |-> "int", chunks |-> <<>>, items |-> <<>>]

\* Fault: the domain is compared as written.
LowerAsWritten(word) == word

\* str.lower, on the words of the model
Lower(word) ==
    IF word \in {"BLOCKED.EXAMPLE", "Blocked.Example"} THEN "blocked.example"
    ELSE IF word = "OK.Example" THEN "ok.example"
    ELSE word

\* PolicyEngine._domain_for: _EMAIL_PATTERN = ^[^@\s]+@([^@\s]+)$ matched
\* on value.strip(), the capture lowercased; None without a match
DomainFor(value) ==
    LET v == Strip(value.chunks)
    IN  IF /\ Len(v) = 3
           /\ v[2] = "@"
           /\ v[1] \notin {" ", "@"}
           /\ v[3] \notin {" ", "@"}
        THEN Lower(v[3])
        ELSE None

\* for key in ("to", "cc", "bcc", "principal", "counterparty")
AddressKeys == {"to", "cc", "bcc", "principal", "counterparty"}

\* PolicyEngine._extract_domains_from_args
ExtractDomainsFromArgs(args) ==
    LET values(raw) == IF raw.type = "list"
                       THEN {raw.items[i] : i \in DOMAIN raw.items}
                       ELSE {raw}
        strings == UNION {{v \in values(args[key]) : v.type = "str"} :
                            key \in AddressKeys \cap DOMAIN args}
    IN  {DomainFor(v) : v \in strings} \ {None}

\* Fault: only None counts as a missing key.
FalsyOnlyNone(key) == key = <<>>

\* A falsy idempotency key is None (<<>>) or the empty string (<<"">>).
Falsy(key) == key = <<>> \/ key = <<"">>

\* Fault: the domains of the arguments are not looked at.
ValidateActionRequestKeyOnly(action, phase, idempotency_key, args) ==
    IF phase = "execute" /\ action.requires_idempotency /\ Falsy(idempotency_key)
    THEN ErrorResponse(400, "IDEMPOTENCY_KEY_REQUIRED")
    ELSE NoResponse

\* PolicyEngine.validate_action_request: the error it raises, or "ok"
ValidateActionRequest(action, phase, idempotency_key, args) ==
    IF phase = "execute" /\ action.requires_idempotency /\ Falsy(idempotency_key)
    THEN ErrorResponse(400, "IDEMPOTENCY_KEY_REQUIRED")
    ELSE IF \E d \in ExtractDomainsFromArgs(args) : d \in blocked_domains
    THEN ErrorResponse(403, "POLICY_BLOCKED")
    ELSE NoResponse

\* PolicyEngine._load_approval_defaults: given is the object of
\* ACTION_APPROVAL_DEFAULTS_JSON (risk tier -> boolean), <<>> when unset.
LoadApprovalDefaults(given) ==
    [t \in RiskTiers |->
        IF t \in DOMAIN given THEN given[t] ELSE DefaultApprovalByRisk[t]]

\* PolicyEngine._normalize_plugin_pattern.  Patterns are kept as segments
\* like capability ids; a trailing "*" segment stands for "any rest".
NormalizePluginPattern(plugin_id, pattern) ==
    IF pattern = <<"*">> THEN <<plugin_id, "*">>
    ELSE IF Len(pattern) >= 2 /\ pattern[1] = plugin_id THEN pattern
    ELSE <<plugin_id>> \o pattern

\* The object of ACTION_APPROVAL_OVERRIDES_JSON when it is unset
NoOverrides ==
    [global |-> [allow |-> {}, require |-> {}], plugins |-> <<>>]

\* PolicyEngine._load_approval_overrides, _parse_override_block and
\* _normalize_patterns: the global patterns as given, the patterns of each
\* plugin block normalised under the plugin id of the block.
LoadApprovalOverrides(overrides) ==
    [global_allow |-> overrides.global.allow,
     global_require |-> overrides.global.require,
     plugin_allow |->
        [p \in DOMAIN overrides.plugins |->
            {NormalizePluginPattern(p, x) : x \in overrides.plugins[p].allow}],
     plugin_require |->
        [p \in DOMAIN overrides.plugins |->
            {NormalizePluginPattern(p, x) : x \in overrides.plugins[p].require}]]

\* PolicyEngine.__init__: the approval settings of an engine built from the
\* two settings
PolicyEngine(defaults, overrides) ==
    [approval_defaults |-> LoadApprovalDefaults(defaults)]
      @@ LoadApprovalOverrides(overrides)

\* The engine of the runtime: both settings unset
approval_defaults == PolicyEngine(<<>>, NoOverrides).approval_defaults
plugin_require_patterns == PolicyEngine(<<>>, NoOverrides).plugin_require
plugin_allow_patterns == PolicyEngine(<<>>, NoOverrides).plugin_allow
global_require_patterns == PolicyEngine(<<>>, NoOverrides).global_require
global_allow_patterns == PolicyEngine(<<>>, NoOverrides).global_allow

\* PolicyEngine._matches_pattern: pattern[:-1] of "p.*" is "p.", which a
\* capability id starts with when its first segments are those of p and at
\* least one more follows; pattern[:-1] of "*" is the empty string.
MatchesPattern(capability_id, pattern) ==
    IF Len(pattern) >= 1 /\ pattern[Len(pattern)] = "*"
    THEN \/ Len(pattern) = 1
         \/ /\ Len(capability_id) >= Len(pattern)
            /\ SubSeq(capability_id, 1, Len(pattern) - 1)
                 = SubSeq(pattern, 1, Len(pattern) - 1)
    ELSE capability_id = pattern

MatchesAny(capability_id, patterns) ==
    \E pattern \in patterns : MatchesPattern(capability_id, pattern)

\* PolicyEngine._plugin_id_for
PluginIdFor(capability_id) == capability_id[1]

\* dict.get(plugin_id, ())
PatternsOf(table, plugin_id) ==
    IF plugin_id \in DOMAIN table THEN table[plugin_id] ELSE {}

\* Fault: the global patterns are consulted before those of the plugin.
RequiresApprovalGlobalFirst(policy, action, phase) ==
    IF phase # "execute" THEN FALSE
    ELSE LET capability_id == action.capability_id
             plugin_id == PluginIdFor(capability_id)
             plugin_require == PatternsOf(policy.plugin_require, plugin_id)
             plugin_allow == PatternsOf(policy.plugin_allow, plugin_id)
         IN  IF MatchesAny(capability_id, policy.global_require) THEN TRUE
             ELSE IF MatchesAny(capability_id, policy.global_allow) THEN FALSE
             ELSE IF MatchesAny(capability_id, plugin_require) THEN TRUE
             ELSE IF MatchesAny(capability_id, plugin_allow) THEN FALSE
             ELSE policy.approval_defaults[action.risk_tier]

\* Fault: a propose request is decided like an execute request.
RequiresApprovalAnyPhase(policy, action, phase) ==
    LET capability_id == action.capability_id
        plugin_id == PluginIdFor(capability_id)
        plugin_require == PatternsOf(policy.plugin_require, plugin_id)
        plugin_allow == PatternsOf(policy.plugin_allow, plugin_id)
    IN  IF MatchesAny(capability_id, plugin_require) THEN TRUE
        ELSE IF MatchesAny(capability_id, plugin_allow) THEN FALSE
        ELSE IF MatchesAny(capability_id, policy.global_require) THEN TRUE
        ELSE IF MatchesAny(capability_id, policy.global_allow) THEN FALSE
        ELSE policy.approval_defaults[action.risk_tier]

\* PolicyEngine.requires_approval of an engine with the given settings
RequiresApprovalWith(policy, action, phase) ==
    IF phase # "execute" THEN FALSE
    ELSE LET capability_id == action.capability_id
             plugin_id == PluginIdFor(capability_id)
             plugin_require == PatternsOf(policy.plugin_require, plugin_id)
             plugin_allow == PatternsOf(policy.plugin_allow, plugin_id)
         IN  IF MatchesAny(capability_id, plugin_require) THEN TRUE
             ELSE IF MatchesAny(capability_id, plugin_allow) THEN FALSE
             ELSE IF MatchesAny(capability_id, policy.global_require) THEN TRUE
             ELSE IF MatchesAny(capability_id, policy.global_allow) THEN FALSE
             ELSE policy.approval_defaults[action.risk_tier]

\* PolicyEngine.requires_approval of the runtime
RequiresApproval(action, phase) ==
    RequiresApprovalWith(PolicyEngine(<<>>, NoOverrides), action, phase)

----------------------------------------------------------------------------
(* api/actions.py: hashing *)

\* _hash_payload: SHA-256 of the canonical JSON (keys sorted).  The digest
\* is kept as the tuple of the values in key order: equal exactly when the
\* hashed objects are equal.
RequestHash(r) ==
    <<"sha256", r.action_name, r.args, r.phase, r.plugin_id, r.resource,
      r.resource_id>>

\* _approval_fingerprint
ApprovalFingerprint(capability_id, resource_id, args) ==
    <<"sha256", args, capability_id, resource_id>>

\* idempotency_scope = f"{plugin_id}:{resource or '_'}:{action_name}",
\* kept as its colon-separated segments
IdempotencyScope(r) ==
    <<r.plugin_id, IF r.resource = None THEN "_" ELSE r.resource, r.action_name>>

----------------------------------------------------------------------------
(* core/idempotency.py *)

\* Fault: the scope is left out of the record key.
RecordKeyUnscoped(scope, idempotency_key) == idempotency_key

\* IdempotencyStore._record_key = f"{scope}:{idempotency_key}", as segments
RecordKey(scope, idempotency_key) == scope \o idempotency_key

NoRecord == [request_hash |-> <<>>, status_code |-> 0, payload |-> NoBody]

\* IdempotencyStore.fetch
Fetch(store, scope, idempotency_key) ==
    IF RecordKey(scope, idempotency_key) \in DOMAIN store
    THEN store[RecordKey(scope, idempotency_key)]
    ELSE NoRecord

\* Fault: the record stored under the key is not looked at.
FetchOrValidateNoRecord(store, scope, idempotency_key, request_hash) == "miss"

\* Fault: the request hash of the record is not compared.
FetchOrValidateAnyHash(store, scope, idempotency_key, request_hash) ==
    IF Fetch(store, scope, idempotency_key) = NoRecord THEN "miss" ELSE "hit"

\* IdempotencyStore.fetch_or_validate: "miss", "hit" or "reused"
FetchOrValidate(store, scope, idempotency_key, request_hash) ==
    LET record == Fetch(store, scope, idempotency_key)
    IN  IF record = NoRecord THEN "miss"
        ELSE IF record.request_hash # request_hash THEN "reused"
        ELSE "hit"

\* IdempotencyStore.save
Save(store, scope, idempotency_key, request_hash, status_code, payload) ==
    (RecordKey(scope, idempotency_key) :>
        [request_hash |-> request_hash, status_code |-> status_code,
         payload |-> payload]) @@ store

----------------------------------------------------------------------------
(* core/approvals.py *)

\* Fault: the status of the ticket is not compared.
FindForFingerprintAnyStatus(store, capability_id, fingerprint, statuses) ==
    LET hits == {i \in 1..Len(store) : /\ store[i].capability_id = capability_id
                                       /\ store[i].fingerprint = fingerprint}
    IN  IF hits = {} THEN NoTicket
        ELSE CHOOSE i \in hits : \A j \in hits : i <= j

\* ApprovalStore.find_for_fingerprint: the id of the first ticket, in
\* insertion order, that matches; NoTicket when none does.
FindForFingerprint(store, capability_id, fingerprint, statuses) ==
    LET hits == {i \in 1..Len(store) : /\ store[i].capability_id = capability_id
                                       /\ store[i].fingerprint = fingerprint
                                       /\ store[i].status \in statuses}
    IN  IF hits = {} THEN NoTicket
        ELSE CHOOSE i \in hits : \A j \in hits : i <= j

\* ApprovalStore.create_ticket: the store with the new pending ticket.  The
\* random id is a fresh one: the next position.
CreateTicket(store, summary, proposed_effect, capability_id, fingerprint) ==
    Append(store, [status |-> "pending", summary |-> summary,
                   proposed_effect |-> proposed_effect,
                   fingerprint |-> fingerprint,
                   capability_id |-> capability_id])

\* ApprovalStore.get
KnownTicket(store, ticket_id) == ticket_id \in 1..Len(store)

\* Fault: a ticket that already has the status is reported as finalized.
SetStatusCheckNotIdempotent(store, ticket_id, status) ==
    IF status \notin {"approved", "denied"} THEN "VALIDATION_ERROR"
    ELSE IF ~KnownTicket(store, ticket_id) THEN "NOT_FOUND"
    ELSE IF store[ticket_id].status # "pending" THEN "APPROVAL_ALREADY_FINALIZED"
    ELSE "write"

\* Fault: a ticket that was approved or denied can be given the other
\* status.
SetStatusCheckOverwriting(store, ticket_id, status) ==
    IF status \notin {"approved", "denied"} THEN "VALIDATION_ERROR"
    ELSE IF ~KnownTicket(store, ticket_id) THEN "NOT_FOUND"
    ELSE IF store[ticket_id].status = status THEN "same"
    ELSE "write"

\* ApprovalStore.set_status up to the write: the error it raises, "same"
\* when the ticket already has the status, "write" when it goes on to
\* assign.
SetStatusCheck(store, ticket_id, status) ==
    IF status \notin {"approved", "denied"} THEN "VALIDATION_ERROR"
    ELSE IF ~KnownTicket(store, ticket_id) THEN "NOT_FOUND"
    ELSE IF store[ticket_id].status = status THEN "same"
    ELSE IF store[ticket_id].status # "pending" THEN "APPROVAL_ALREADY_FINALIZED"
    ELSE "write"

----------------------------------------------------------------------------
(* The plugin contract.  A plugin is an external collaborator: what        *)
(* run_action returns is an input of the step that calls it.               *)

NoResult == [kind |-> "none", status |-> None, result |-> <<>>, summary |-> <<>>,
             proposed_effect |-> <<>>, counterparty_domain |-> None,
             error |-> NoResponse]

\* What a plugin may do with one call, before the phase is known to it.
OutA == [NoResult EXCEPT !.kind = "result", !.status = "success",
                         !.result = <<"v1">>, !.summary = <<"summary one">>,
                         !.proposed_effect = <<"v1">>]
OutB == [NoResult EXCEPT !.kind = "result", !.status = "success",
                         !.result = <<"v2">>,
                         !.counterparty_domain = "ok.example"]
OutBlockedStatus == [OutA EXCEPT !.status = "blocked"]
OutBlockedDomain == [OutA EXCEPT !.counterparty_domain = "blocked.example"]
OutRaise == [NoResult EXCEPT !.kind = "raise",
                             !.error = ErrorResponse(404, "NOT_FOUND")]

\* InternalActionResult of a call made with context.phase = phase: the
\* result and the proposed effect tell the phase the plugin was called in
\* (GmailDemoPlugin adds sent_message_id in the execute phase only).
RunAction(outcome, phase) ==
    IF outcome.kind # "result" THEN outcome
    ELSE [outcome EXCEPT
            !.result = <<phase>> \o outcome.result,
            !.proposed_effect = IF outcome.proposed_effect = <<>> THEN <<>>
                                ELSE <<phase>> \o outcome.proposed_effect]

----------------------------------------------------------------------------
(* api/actions.py handle_action, api/app.py _handle_action *)

ActionOf(r) == ResolveAction(r.plugin_id, r.action_name, r.resource)

\* Fault: the arguments are validated before the propose check.
AdmitWithValidationFirst(required, r) ==
    LET auth == AuthenticateWith(required, r.headers)
        action == ActionOf(r)
        checked == r.via = "routes"
        t1 == IF checked THEN <<"authenticate">> ELSE <<>>
        t2 == Append(t1, "resolve")
        t3 == IF checked THEN Append(t2, "authorize") ELSE t2
        t4 == Append(t3, "propose_check")
        t5 == Append(t4, "validate")
        validation == ValidateActionRequest(action, r.phase, r.idempotency_key,
                                            r.args)
    IN  IF checked /\ ~auth.ok
        THEN [trace |-> t1, response |-> auth.error]
        ELSE IF action = NoAction
        THEN [trace |-> t2, response |-> ErrorResponse(404, "NOT_FOUND")]
        ELSE IF checked /\ ~Can(auth.principal, action.capability_id)
        THEN [trace |-> t3, response |-> ErrorResponse(403, "CAPABILITY_DENIED")]
        ELSE IF validation # NoResponse
        THEN [trace |-> t5, response |-> validation]
        ELSE IF r.phase = "propose" /\ ~action.supports_propose
        THEN [trace |-> t4, response |-> ErrorResponse(400, "ACTION_NOT_PROPOSABLE")]
        ELSE [trace |-> t5, response |-> NoResponse]

\* Fault: the capability is required of the caller before the action is
\* resolved, under the capability id the route spells.
AdmitWithAuthorizeFirst(required, r) ==
    LET auth == AuthenticateWith(required, r.headers)
        action == ActionOf(r)
        checked == r.via = "routes"
        spelled == <<r.plugin_id, IF r.resource = None THEN "_" ELSE r.resource,
                     r.action_name>>
        t1 == IF checked THEN <<"authenticate">> ELSE <<>>
        t2 == IF checked THEN Append(t1, "authorize") ELSE t1
        t3 == Append(t2, "resolve")
        t4 == Append(t3, "propose_check")
        t5 == Append(t4, "validate")
        validation == ValidateActionRequest(action, r.phase, r.idempotency_key,
                                            r.args)
    IN  IF checked /\ ~auth.ok
        THEN [trace |-> t1, response |-> auth.error]
        ELSE IF checked /\ ~Can(auth.principal,
                                IF action = NoAction THEN spelled
                                ELSE action.capability_id)
        THEN [trace |-> t2, response |-> ErrorResponse(403, "CAPABILITY_DENIED")]
        ELSE IF action = NoAction
        THEN [trace |-> t3, response |-> ErrorResponse(404, "NOT_FOUND")]
        ELSE IF r.phase = "propose" /\ ~action.supports_propose
        THEN [trace |-> t4, response |-> ErrorResponse(400, "ACTION_NOT_PROPOSABLE")]
        ELSE [trace |-> t5, response |-> validation]

\* Lines 32-52 of handle_action (requests routed by api/routes.py) and
\* lines 337-352 of _handle_action (requests routed by api/app.py, which
\* neither authenticates nor authorizes): the steps taken, in order, and
\* the error raised, NoResponse when the request goes on.
AdmitWith(required, r) ==
    LET auth == AuthenticateWith(required, r.headers)
        action == ActionOf(r)
        checked == r.via = "routes"
        t1 == IF checked THEN <<"authenticate">> ELSE <<>>
        t2 == Append(t1, "resolve")
        t3 == IF checked THEN Append(t2, "authorize") ELSE t2
        t4 == Append(t3, "propose_check")
        t5 == Append(t4, "validate")
        validation == ValidateActionRequest(action, r.phase, r.idempotency_key,
                                            r.args)
    IN  IF checked /\ ~auth.ok
        THEN [trace |-> t1, response |-> auth.error]
        ELSE IF action = NoAction
        THEN [trace |-> t2, response |-> ErrorResponse(404, "NOT_FOUND")]
        ELSE IF checked /\ ~Can(auth.principal, action.capability_id)
        THEN [trace |-> t3, response |-> ErrorResponse(403, "CAPABILITY_DENIED")]
        ELSE IF r.phase = "propose" /\ ~action.supports_propose
        THEN [trace |-> t4, response |-> ErrorResponse(400, "ACTION_NOT_PROPOSABLE")]
        ELSE [trace |-> t5, response |-> validation]

Admit(r) == AdmitWith(require_auth, r)

\* Fault: the action is not asked whether it is mutating.
KeyedAnyAction(r) == r.phase = "execute" /\ ~Falsy(r.idempotency_key)

\* phase == "execute" and payload.idempotency_key and action.mutating
Keyed(r) ==
    r.phase = "execute" /\ ~Falsy(r.idempotency_key) /\ ActionOf(r).mutating

\* Fault: the fingerprint also covers the credentials and the key of the
\* request.
FingerprintOfCaller(r) ==
    ApprovalFingerprint(ActionOf(r).capability_id, r.resource_id,
                        <<r.args, r.headers, r.idempotency_key>>)

FingerprintOf(r) ==
    ApprovalFingerprint(ActionOf(r).capability_id, r.resource_id, r.args)

\* Fault: the preview is dispatched in the phase of the request.
PreviewPhaseOfRequest(r) == r.phase

\* _run_preview: the phase of the context the preview call is made with
PreviewPhase(r) ==
    IF ~ActionOf(r).supports_propose THEN r.phase ELSE "propose"

\* _enforce_action_policy and the status check of lines 127-128
EnforceActionPolicy(result) ==
    IF result.counterparty_domain \in blocked_domains
    THEN ErrorResponse(403, "POLICY_BLOCKED")
    ELSE IF result.status = "blocked"
    THEN ErrorResponse(403, "POLICY_BLOCKED")
    ELSE NoResponse

InitLoc ==
    [approved |-> NoTicket, pending |-> NoTicket, preview |-> NoResult,
     response |-> NoResponse, lookup |-> "skipped", created |-> NoTicket,
     trace |-> <<>>, calls |-> <<>>, peers |-> {}, after200 |-> FALSE]

NoRequest ==
    [via |-> None, headers |-> [authorization |-> [scheme |-> "", token |-> NoToken],
                                identity |-> ""],
     plugin_id |-> None, resource |-> None, resource_id |-> None,
     action_name |-> None, phase |-> None, idempotency_key |-> <<>>,
     args |-> [to |-> ListOf(<<>>), body |-> None]]

\* What is logged of one exchange: the request, the response, the steps
\* taken, the plugin calls made, what the store lookups returned, the
\* workers that were busy meanwhile, and whether the request arrived after
\* a 200 had been recorded for its scope, key and hash.
Exchange(r, l, response) ==
    [req |-> r, response |-> response, trace |-> l.trace, calls |-> l.calls,
     lookup |-> l.lookup, approved |-> l.approved, pending |-> l.pending,
     created |-> l.created, peers |-> l.peers, after200 |-> l.after200]

NoExchange == Exchange(NoRequest, InitLoc, NoResponse)

\* The request is answered: the exchange is logged and the worker is free.
Complete(w, l, response) ==
    /\ done' = [done EXCEPT ![w] = Exchange(req[w], l, response)]
    /\ pc' = [pc EXCEPT ![w] = "idle"]
    /\ req' = [req EXCEPT ![w] = NoRequest]
    /\ loc' = [loc EXCEPT ![w] = InitLoc]

\* The workers that are handling a request
Busy == {v \in Workers : pc[v] # "idle"}

\* A request arrives and runs up to the first access to a store: lines
\* 32-64 (authenticate, resolve, authorize, propose check, validate, hash).
Start(w, r) ==
    /\ pc[w] = "idle"
    /\ nreq' = nreq + 1
    /\ presented' = IF r.phase = "execute" /\ ~Falsy(r.idempotency_key)
                       /\ ActionOf(r).mutating
                    THEN presented \cup {<<IdempotencyScope(r),
                                           r.idempotency_key, RequestHash(r)>>}
                    ELSE presented
    /\ LET a == Admit(r)
           l == [InitLoc EXCEPT
                   !.trace = a.trace, !.peers = Busy,
                   !.after200 =
                      /\ a.response = NoResponse
                      /\ Keyed(r)
                      /\ <<RecordKey(IdempotencyScope(r), r.idempotency_key),
                            RequestHash(r)>> \in DOMAIN served]
           met == [v \in Workers |->
                     IF v \in Busy THEN [loc[v] EXCEPT !.peers = @ \cup {w}]
                     ELSE loc[v]]
       IN  IF a.response # NoResponse
           THEN /\ done' = [done EXCEPT ![w] = Exchange(r, l, a.response)]
                /\ loc' = met
                /\ UNCHANGED <<pc, req>>
           ELSE /\ pc' = [pc EXCEPT ![w] = IF Keyed(r) THEN "lookup" ELSE "gate"]
                /\ req' = [req EXCEPT ![w] = r]
                /\ loc' = [met EXCEPT ![w] = l]
                /\ UNCHANGED done
    /\ UNCHANGED <<probe, tickets, records, spc, sloc, sdone, served, nset>>

\* Lines 66-75: fetch_or_validate and the replay of a stored response.
IdempotencyLookup(w) ==
    /\ pc[w] = "lookup"
    /\ LET r == req[w]
           scope == IdempotencyScope(r)
           found == FetchOrValidate(records, scope, r.idempotency_key,
                                    RequestHash(r))
           existing == Fetch(records, scope, r.idempotency_key)
           l == [loc[w] EXCEPT !.lookup = found,
                               !.trace = Append(@, "idempotency_lookup")]
       IN  CASE found = "reused" ->
                  /\ Complete(w, l, ErrorResponse(400, "IDEMPOTENCY_KEY_REUSED"))
             [] found = "hit" ->
                  /\ Complete(w, l, [status_code |-> existing.status_code,
                                     body |-> existing.payload])
             [] OTHER ->
                  /\ pc' = [pc EXCEPT ![w] = "gate"]
                  /\ loc' = [loc EXCEPT ![w] = l]
                  /\ UNCHANGED <<req, done>>
    /\ UNCHANGED <<probe, tickets, records, spc, sloc, sdone, served, presented, nreq,
                   nset>>

\* Lines 86-97: requires_approval and the lookup of an approved ticket.
ApprovalGate(w) ==
    /\ pc[w] = "gate"
    /\ LET r == req[w]
           action == ActionOf(r)
           required == RequiresApproval(action, r.phase)
           approved == IF required
                       THEN FindForFingerprint(tickets, action.capability_id,
                                               FingerprintOf(r), {"approved"})
                       ELSE NoTicket
       IN  /\ loc' = [loc EXCEPT ![w].approved = approved,
                                 ![w].trace = Append(@, "approval_gate")]
           /\ pc' = [pc EXCEPT ![w] = IF required /\ approved = NoTicket
                                      THEN "find_pending" ELSE "dispatch"]
    /\ UNCHANGED <<probe, tickets, records, req, done, spc, sloc, sdone, served,
                   presented, nreq, nset>>

\* Lines 98-102: the lookup of a pending ticket.
FindPending(w) ==
    /\ pc[w] = "find_pending"
    /\ LET r == req[w]
       IN  loc' = [loc EXCEPT ![w].pending =
                      FindForFingerprint(tickets, ActionOf(r).capability_id,
                                         FingerprintOf(r), {"pending"})]
    /\ pc' = [pc EXCEPT ![w] = "preview"]
    /\ UNCHANGED <<probe, tickets, records, req, done, spc, sloc, sdone, served,
                   presented, nreq, nset>>

\* What the plugin is told by one run_action call, what it answered, and
\* whether an approved ticket for the request's fingerprint is in the store
\* at that moment.
Call(r, phase, result) ==
    [phase |-> phase, returned |-> result,
     approved_exists |->
        FindForFingerprint(tickets, ActionOf(r).capability_id,
                           FingerprintOf(r), {"approved"}) # NoTicket]

\* Fault: an error raised by the preview call is swallowed and the handler
\* goes on to the ticket.
PreviewSwallowingError(w, outcome) ==
    /\ pc[w] = "preview"
    /\ LET r == req[w]
           phase == PreviewPhase(r)
           result == RunAction(outcome, phase)
           l == [loc[w] EXCEPT !.preview = result,
                               !.calls = Append(@, Call(r, phase, result)),
                               !.trace = Append(@, "dispatch")]
       IN  /\ pc' = [pc EXCEPT ![w] = "ticket"]
           /\ loc' = [loc EXCEPT ![w] = l]
           /\ UNCHANGED <<req, done>>
    /\ UNCHANGED <<probe, tickets, records, spc, sloc, sdone, served, presented, nreq,
                   nset>>

\* Lines 103-108: the preview dispatch (_run_preview).
Preview(w, outcome) ==
    /\ pc[w] = "preview"
    /\ LET r == req[w]
           phase == PreviewPhase(r)
           result == RunAction(outcome, phase)
           l == [loc[w] EXCEPT !.preview = result,
                               !.calls = Append(@, Call(r, phase, result)),
                               !.trace = Append(@, "dispatch")]
       IN  IF result.kind = "raise"
           THEN Complete(w, l, result.error)
           ELSE /\ pc' = [pc EXCEPT ![w] = "ticket"]
                /\ loc' = [loc EXCEPT ![w] = l]
                /\ UNCHANGED <<req, done>>
    /\ UNCHANGED <<probe, tickets, records, spc, sloc, sdone, served, presented, nreq,
                   nset>>

\* Fault: the 202 carries the summary and the proposed effect of the
\* preview just made instead of those of the ticket.
IssueTicketFromPreview(w) ==
    /\ pc[w] = "ticket"
    /\ LET r == req[w]
           action == ActionOf(r)
           preview_result == loc[w].preview
           summary == IF preview_result.summary # <<>>
                      THEN preview_result.summary
                      ELSE <<action.name, "requires approval">>
           proposed_effect == IF preview_result.proposed_effect # <<>>
                              THEN preview_result.proposed_effect
                              ELSE preview_result.result
           pending == loc[w].pending
           store == IF pending # NoTicket THEN tickets
                    ELSE CreateTicket(tickets, summary, proposed_effect,
                                      action.capability_id, FingerprintOf(r))
           id == IF pending # NoTicket THEN pending ELSE Len(store)
           ticket == store[id]
           l == [loc[w] EXCEPT !.created = IF pending # NoTicket THEN NoTicket
                                           ELSE id]
       IN  /\ tickets' = store
           /\ Complete(w, l,
                       [status_code |-> 202,
                        body |-> NeedsApprovalBody(id, summary,
                                                   proposed_effect)])
    /\ UNCHANGED <<probe, records, spc, sloc, sdone, served, presented, nreq, nset>>

\* Lines 109-122: the pending ticket found before the preview, or a new
\* one, and the 202 response built from it.
IssueTicket(w) ==
    /\ pc[w] = "ticket"
    /\ LET r == req[w]
           action == ActionOf(r)
           preview_result == loc[w].preview
           summary == IF preview_result.summary # <<>>
                      THEN preview_result.summary
                      ELSE <<action.name, "requires approval">>
           proposed_effect == IF preview_result.proposed_effect # <<>>
                              THEN preview_result.proposed_effect
                              ELSE preview_result.result
           pending == loc[w].pending
           store == IF pending # NoTicket THEN tickets
                    ELSE CreateTicket(tickets, summary, proposed_effect,
                                      action.capability_id, FingerprintOf(r))
           id == IF pending # NoTicket THEN pending ELSE Len(store)
           ticket == store[id]
           l == [loc[w] EXCEPT !.created = IF pending # NoTicket THEN NoTicket
                                           ELSE id]
       IN  /\ tickets' = store
           /\ Complete(w, l,
                       [status_code |-> 202,
                        body |-> NeedsApprovalBody(id, ticket.summary,
                                                   ticket.proposed_effect)])
    /\ UNCHANGED <<probe, records, spc, sloc, sdone, served, presented, nreq, nset>>

\* Lines 124-133: the dispatch in the request's phase, the enforcement of
\* the action policy on the result and the success response.
Dispatch(w, outcome) ==
    /\ pc[w] = "dispatch"
    /\ LET r == req[w]
           result == RunAction(outcome, r.phase)
           l1 == [loc[w] EXCEPT !.calls = Append(@, Call(r, r.phase, result)),
                                !.trace = Append(@, "dispatch")]
           l2 == [l1 EXCEPT !.trace = Append(@, "enforce")]
           blocked == EnforceActionPolicy(result)
           response == [status_code |-> 200,
                        body |-> SuccessBody(result.result, result.summary)]
       IN  IF result.kind = "raise"
           THEN Complete(w, l1, result.error)
           ELSE IF blocked # NoResponse
           THEN Complete(w, l2, blocked)
           ELSE IF Keyed(r)
           THEN /\ pc' = [pc EXCEPT ![w] = "save"]
                /\ loc' = [loc EXCEPT ![w] = [l2 EXCEPT !.response = response]]
                /\ UNCHANGED <<req, done>>
           ELSE Complete(w, l2, response)
    /\ UNCHANGED <<probe, tickets, records, spc, sloc, sdone, served, presented, nreq,
                   nset>>

\* Lines 135-144: the response is recorded under the key and returned.
IdempotencySave(w) ==
    /\ pc[w] = "save"
    /\ LET r == req[w]
           response == loc[w].response
           store == Save(records, IdempotencyScope(r), r.idempotency_key,
                         RequestHash(r), 200, response.body)
           l == [loc[w] EXCEPT !.trace = Append(@, "idempotency_save")]
           first == <<RecordKey(IdempotencyScope(r), r.idempotency_key),
                      RequestHash(r)>>
       IN  /\ records' = store
           /\ served' = IF first \in DOMAIN served THEN served
                         ELSE (first :> response.body) @@ served
           /\ Complete(w, l, response)
    /\ UNCHANGED <<probe, tickets, spc, sloc, sdone, presented, nreq, nset>>

----------------------------------------------------------------------------
(* api/routes.py approve_ticket / deny_ticket, core/approvals.py set_status *)

NoTicketRead ==
    [status |-> None, summary |-> <<>>, proposed_effect |-> <<>>,
     fingerprint |-> <<>>, capability_id |-> NoCaps]

NoCall == [ticket_id |-> NoTicket, status |-> None, ticket |-> NoTicketRead,
           peers |-> {}]

NoCallDone == [ticket_id |-> NoTicket, status |-> None, read |-> None,
               outcome |-> None, returned |-> None, peers |-> {}]

\* The approvers that are inside set_status
Writing == {g \in Approvers : spc[g] # "idle"}

SetStatusEnd(h, locals, c, outcome, returned) ==
    /\ sdone' = [sdone EXCEPT ![h] =
                    [ticket_id |-> c.ticket_id, status |-> c.status,
                     read |-> c.ticket.status, outcome |-> outcome,
                     returned |-> returned, peers |-> c.peers]]
    /\ spc' = [spc EXCEPT ![h] = "idle"]
    /\ sloc' = [locals EXCEPT ![h] = NoCall]

\* Lines 42-51: the status is validated, the ticket is read and checked.
SetStatusBegin(h, ticket_id, status) ==
    /\ spc[h] = "idle"
    /\ nset' = nset + 1
    /\ LET check == SetStatusCheck(tickets, ticket_id, status)
           ticket == IF KnownTicket(tickets, ticket_id)
                     THEN tickets[ticket_id] ELSE NoTicketRead
           c == [ticket_id |-> ticket_id, status |-> status, ticket |-> ticket,
                 peers |-> Writing]
           met == [g \in Approvers |->
                     IF g \in Writing THEN [sloc[g] EXCEPT !.peers = @ \cup {h}]
                     ELSE sloc[g]]
       IN  CASE check = "write" ->
                  /\ spc' = [spc EXCEPT ![h] = "write"]
                  /\ sloc' = [met EXCEPT ![h] = c]
                  /\ UNCHANGED sdone
             [] check = "same" -> SetStatusEnd(h, met, c, "ok", ticket.status)
             [] OTHER -> SetStatusEnd(h, met, c, check, None)
    /\ UNCHANGED <<probe, tickets, records, pc, req, loc, done, served, presented,
                   nreq>>

\* Lines 52-55: the ticket read before is copied with the new status and
\* assigned over whatever the store holds under the id by now.
SetStatusWrite(h) ==
    /\ spc[h] = "write"
    /\ LET c == sloc[h]
           updated == [c.ticket EXCEPT !.status = c.status]
           store == [tickets EXCEPT ![c.ticket_id] = updated]
       IN  /\ tickets' = store
           /\ SetStatusEnd(h, sloc, c, "ok", updated.status)
    /\ UNCHANGED <<probe, records, pc, req, loc, done, served, presented, nreq,
                   nset>>

----------------------------------------------------------------------------
(* Inputs *)

FullHeaders ==
    [authorization |-> [scheme |-> "Bearer", token |-> <<"dev-local-token">>],
     identity |-> "tailnet://local/dev-local"]
NoHeaders == [authorization |-> [scheme |-> "", token |-> NoToken], identity |-> ""]
LimitedHeaders ==
    [authorization |-> [scheme |-> "Bearer", token |-> <<"limited-token">>],
     identity |-> "tailnet://local/limited"]

PeerHeaders ==
    [authorization |-> [scheme |-> "Bearer", token |-> <<"peer-token">>],
     identity |-> "tailnet://local/peer"]

ArgsA == [to |-> ListOf(<<>>), body |-> "On it"]
ArgsB == [to |-> ListOf(<<>>), body |-> "Later"]
ArgsBlocked ==
    [to |-> ListOf(<<StrOf(<<"eve", "@", "blocked.example">>)>>),
     body |-> "On it"]

Key1 == <<"idem-1">>
Key2 == <<"idem-2">>
NoKey == <<>>

Request(via, headers, plugin_id, resource, resource_id, action_name, phase, key, args) ==
    [via |-> via, headers |-> headers, plugin_id |-> plugin_id,
     resource |-> resource, resource_id |-> resource_id,
     action_name |-> action_name, phase |-> phase, idempotency_key |-> key,
     args |-> args]

Reply(phase, key, args) ==
    Request("routes", FullHeaders, "gmail", "messages", "msg_allowed", "reply",
            phase, key, args)
Play(phase, key, args) ==
    Request("routes", FullHeaders, "apple_music", None, None, "play",
            phase, key, args)
Wipe(phase, key, args) ==
    Request("routes", FullHeaders, "vault", None, None, "wipe",
            phase, key, args)
Refresh(phase, key, args) ==
    Request("routes", FullHeaders, "find_my", None, None, "refresh",
            phase, key, args)

\* Requests of the interleaved specification: executes only.
ConcRequests ==
    {Reply("execute", Key1, a) : a \in {ArgsA, ArgsB}}
    \cup {Play("execute", Key1, a) : a \in {ArgsA, ArgsB}}
    \cup {Wipe("execute", NoKey, ArgsA)}

ConcOutcomes == {OutA, OutB}

\* Requests of the serialized specification.
SeqRequests ==
    {Reply("execute", Key1, a) : a \in {ArgsA, ArgsB}}
    \cup {Play("execute", Key1, a) : a \in {ArgsA, ArgsB}}
    \cup {Wipe("execute", NoKey, ArgsA), Play("execute", NoKey, ArgsA),
          Refresh("execute", Key1, ArgsA), Reply("propose", Key1, ArgsA),
          [Reply("execute", Key1, ArgsA) EXCEPT !.via = "app",
                                                !.headers = NoHeaders],
          Reply("execute", NoKey, ArgsA), Wipe("propose", NoKey, ArgsA),
          Reply("execute", Key1, ArgsBlocked),
          [Play("execute", Key1, ArgsA) EXCEPT !.headers = NoHeaders],
          [Play("execute", Key1, ArgsA) EXCEPT !.headers = LimitedHeaders]}

SeqOutcomes == {OutA, OutB, OutBlockedStatus, OutBlockedDomain, OutRaise}

----------------------------------------------------------------------------
(* Specifications *)

NoProbe == [op |-> None, input |-> <<>>, output |-> <<>>]

Init ==
    /\ tickets = <<>>
    /\ records = <<>>
    /\ pc = [w \in Workers |-> "idle"]
    /\ req = [w \in Workers |-> NoRequest]
    /\ loc = [w \in Workers |-> InitLoc]
    /\ done = [w \in Workers |-> NoExchange]
    /\ spc = [h \in Approvers |-> "idle"]
    /\ sloc = [h \in Approvers |-> NoCall]
    /\ sdone = [h \in Approvers |-> NoCallDone]
    /\ served = <<>>
    /\ presented = {}
    /\ nreq = 0
    /\ nset = 0
    /\ probe = NoProbe

\* The worker has not answered a request yet, the approver has not called.
Fresh(w) == done[w] = NoExchange
FreshApprover(h) == sdone[h] = NoCallDone

Next ==
    \/ \E w \in Pair, r \in ConcRequests : Fresh(w) /\ Start(w, r)
    \/ \E w \in Pair : IdempotencyLookup(w)
    \/ \E w \in Pair : ApprovalGate(w)
    \/ \E w \in Pair : FindPending(w)
    \/ \E w \in Pair, o \in ConcOutcomes : Preview(w, o)
    \/ \E w \in Pair : IssueTicket(w)
    \/ \E w \in Pair, o \in ConcOutcomes : Dispatch(w, o)
    \/ \E w \in Pair : IdempotencySave(w)
    \/ \E h \in Approvers, id \in 1..Len(tickets),
          status \in {"approved", "denied"} :
             FreshApprover(h) /\ SetStatusBegin(h, id, status)
    \/ \E h \in Approvers : SetStatusWrite(h)

Spec == Init /\ [][Next]_vars

\* Nothing else is in progress: every worker and every approver is idle.
Quiet ==
    /\ \A w \in Workers : pc[w] = "idle"
    /\ \A h \in Approvers : spc[h] = "idle"

\* One operation at a time: a request or a set_status call starts only
\* when nothing is in progress, and then runs alone to its end.
NextSeq ==
    \/ \E r \in SeqRequests : Quiet /\ nreq < MaxSeqReq /\ Start("w1", r)
    \/ IdempotencyLookup("w1")
    \/ ApprovalGate("w1")
    \/ FindPending("w1")
    \/ \E o \in SeqOutcomes : Preview("w1", o)
    \/ IssueTicket("w1")
    \/ \E o \in SeqOutcomes : Dispatch("w1", o)
    \/ IdempotencySave("w1")
    \/ \E id \in 0..Len(tickets), status \in {"approved", "denied", "pending"} :
          Quiet /\ nset < MaxSetStatus /\ SetStatusBegin("h1", id, status)
    \/ SetStatusWrite("h1")

SpecSeq == Init /\ [][NextSeq]_vars

\* Keyed executes of one action that needs no approval, all under one key
\* and with equal arguments, handled by three interleaved workers.
ReplayRequest == Play("execute", Key1, ArgsA)

NextReplay ==
    \/ \E w \in Workers : Fresh(w) /\ Start(w, ReplayRequest)
    \/ \E w \in Workers : IdempotencyLookup(w)
    \/ \E w \in Workers : ApprovalGate(w)
    \/ \E w \in Workers, o \in ConcOutcomes : Dispatch(w, o)
    \/ \E w \in Workers : IdempotencySave(w)

SpecReplay == Init /\ [][NextReplay]_vars

\* Executes of approval-required actions repeated under several keys and
\* under none, one operation at a time, with approvals and denials between
\* them.
RepeatRequests ==
    {Reply("execute", key, args) : key \in {Key1, Key2}, args \in {ArgsA, ArgsB}}
    \cup {Wipe("execute", key, ArgsA) : key \in {NoKey, Key1}}

NextRepeat ==
    \/ \E r \in RepeatRequests : Quiet /\ nreq < MaxRepeat /\ Start("w1", r)
    \/ IdempotencyLookup("w1")
    \/ ApprovalGate("w1")
    \/ FindPending("w1")
    \/ \E o \in {OutA, OutB, OutRaise} : Preview("w1", o)
    \/ IssueTicket("w1")
    \/ \E o \in {OutA, OutB, OutRaise} : Dispatch("w1", o)
    \/ IdempotencySave("w1")
    \/ \E id \in 1..Len(tickets), status \in {"approved", "denied"} :
          Quiet /\ nset < MaxSetStatus /\ SetStatusBegin("h1", id, status)
    \/ SetStatusWrite("h1")

SpecRepeat == Init /\ [][NextRepeat]_vars

\* Executes of the gmail reply around the approval of one ticket: by one
\* agent under two keys, by a second agent, and with other arguments.
GateRequests ==
    {Reply("execute", Key1, ArgsA), Reply("execute", Key2, ArgsA),
     [Reply("execute", Key1, ArgsA) EXCEPT !.headers = PeerHeaders],
     Reply("execute", Key1, ArgsB)}

NextGate ==
    \/ \E r \in GateRequests : Quiet /\ nreq < MaxGateReq /\ Start("w1", r)
    \/ IdempotencyLookup("w1")
    \/ ApprovalGate("w1")
    \/ FindPending("w1")
    \/ \E o \in {OutA, OutB, OutRaise} : Preview("w1", o)
    \/ IssueTicket("w1")
    \/ \E o \in {OutA, OutB} : Dispatch("w1", o)
    \/ IdempotencySave("w1")
    \/ \E id \in 1..Len(tickets), status \in {"approved", "denied"} :
          Quiet /\ nset < MaxSetStatus /\ SetStatusBegin("h1", id, status)
    \/ SetStatusWrite("h1")

SpecGate == Init /\ [][NextGate]_vars

----------------------------------------------------------------------------
(* core/policy.py and api/app.py: reads *)

\* Settings of the reads, scaled down: max_limit 100 -> 2, default_limit
\* 20 -> 1, default_body_max_chars 1200 -> 4.
settings == [default_limit |-> 1, max_limit |-> 2, default_body_max_chars |-> 4]

\* A data_ref is the sequence of its chunks: the word "items[", the
\* character "]", a blank, a single character, or another word ("self").
\* PolicyEngine._parse_item_index: the index, -1 for None, and raises set
\* when int() raises ValueError.  str.isdigit is true of the decimal
\* digits and of characters such as superscript two, which int() does not
\* take.
ParseItemIndex(data_ref) ==
    LET n == Len(data_ref)
        maybe_idx == SubSeq(data_ref, 2, n - 1)
        decimal == [c \in {"0", "1", "2", "3", "4", "5", "6", "7", "8", "9"} |->
                      CHOOSE v \in 0..9 :
                         <<"0", "1", "2", "3", "4", "5", "6", "7", "8", "9">>[v + 1] = c]
        other == {"superscript-2"}
        isdigit == /\ maybe_idx # <<>>
                   /\ \A i \in DOMAIN maybe_idx :
                         maybe_idx[i] \in DOMAIN decimal \cup other
        RECURSIVE int(_)
        int(text) == IF text = <<>> THEN 0
                     ELSE 10 * int(SubSeq(text, 1, Len(text) - 1))
                          + decimal[text[Len(text)]]
    IN  IF n >= 2 /\ data_ref[1] = "items[" /\ data_ref[n] = "]" /\ isdigit
        THEN IF \E i \in DOMAIN maybe_idx : maybe_idx[i] \in other
             THEN [idx |-> -1, raises |-> TRUE]
             ELSE [idx |-> int(maybe_idx), raises |-> FALSE]
        ELSE [idx |-> -1, raises |-> FALSE]

\* An InternalReadResult of list_resource: data is a mapping with a list
\* under "items" (type "dict"), a mapping without one ("dict_no_list") or
\* no mapping ("other"); a policy item is its data_ref and the
\* counterparty_domain of its attrs, None when absent.

\* PolicyEngine.apply_collection_policy: the mapping returned, raised set
\* when the call ends with an exception
ApplyCollectionPolicy(result) ==
    LET data == result.data
        items == data.items
        parsed(k) == ParseItemIndex(result.policy_items[k].data_ref)
        removes(k, idx) ==
            /\ ~parsed(k).raises
            /\ parsed(k).idx = idx
            /\ result.policy_items[k].domain \in blocked_domains
        keep == [i \in DOMAIN items |->
                    ~\E k \in DOMAIN result.policy_items : removes(k, i - 1)]
        RECURSIVE filtered(_)
        filtered(i) == IF i > Len(items) THEN <<>>
                       ELSE (IF keep[i] THEN <<items[i]>> ELSE <<>>)
                            \o filtered(i + 1)
    IN  IF data.type = "other"
        THEN [items |-> <<>>, next_cursor |-> None, raised |-> None]
        ELSE IF data.type = "dict_no_list"
        THEN [items |-> <<>>, next_cursor |-> data.next_cursor, raised |-> None]
        ELSE IF \E k \in DOMAIN result.policy_items : parsed(k).raises
        THEN [items |-> <<>>, next_cursor |-> None, raised |-> "ValueError"]
        ELSE [items |-> filtered(1), next_cursor |-> data.next_cursor,
              raised |-> None]

\* PolicyEngine.enforce_view_policy: the error it raises, or NoResponse
EnforceViewPolicy(raw_read_enabled, view) ==
    IF view = "raw" /\ ~raw_read_enabled
    THEN ErrorResponse(403, "POLICY_BLOCKED")
    ELSE NoResponse

\* Fault: the limit is handed on as asked.
NormalizeLimitUncapped(limit) == [limit |-> limit, raises |-> limit < 1]

\* PolicyEngine.normalize_limit: raises set for ValidationError
NormalizeLimit(limit) ==
    [limit |-> IF limit < settings.max_limit THEN limit ELSE settings.max_limit,
     raises |-> limit < 1]

\* Fault: a given max_chars is taken as it is.
NormalizeMaxCharsUncapped(max_chars) ==
    [max_chars |-> IF max_chars = <<>> THEN settings.default_body_max_chars
                   ELSE max_chars[1],
     raises |-> max_chars # <<>> /\ max_chars[1] < 1]

\* PolicyEngine.normalize_max_chars: max_chars is <<>> for None and <<n>>
\* for the integer n; raises set for ValidationError
NormalizeMaxChars(max_chars) ==
    [max_chars |-> IF max_chars = <<>> THEN settings.default_body_max_chars
                   ELSE IF max_chars[1] < settings.default_body_max_chars
                   THEN max_chars[1]
                   ELSE settings.default_body_max_chars,
     raises |-> max_chars # <<>> /\ max_chars[1] < 1]

\* The data of a single item is [type, fields]: a mapping from keys to
\* values (type "dict") or something else ("other").  A text is the
\* sequence of its characters, " " and "\n" being the whitespace.
\* PolicyEngine._sanitize_text: https?://\S+ removed, <[^>]+> replaced by a
\* blank, whitespace runs collapsed to one blank, stripped, cut
SanitizeText(value, max_chars) ==
    LET white == {" ", "\n"}
        starts(s, i, w) == /\ i + Len(w) - 1 <= Len(s)
                           /\ SubSeq(s, i, i + Len(w) - 1) = w
        \* first index from j on that holds whitespace, Len(s) + 1 if none
        RECURSIVE run_end(_, _)
        run_end(s, j) == IF j > Len(s) \/ s[j] \in white THEN j
                         ELSE run_end(s, j + 1)
        RECURSIVE no_links(_, _)
        no_links(s, i) ==
            IF i > Len(s) THEN <<>>
            ELSE LET k == IF starts(s, i, <<"h", "t", "t", "p", ":", "/", "/">>)
                          THEN 7
                          ELSE IF starts(s, i, <<"h", "t", "t", "p", "s", ":", "/", "/">>)
                          THEN 8 ELSE 0
                 IN  IF k > 0 /\ i + k <= Len(s) /\ s[i + k] \notin white
                     THEN no_links(s, run_end(s, i + k))
                     ELSE <<s[i]>> \o no_links(s, i + 1)
        \* first index from j on that holds ">", 0 if none
        RECURSIVE closing(_, _)
        closing(s, j) == IF j > Len(s) THEN 0
                         ELSE IF s[j] = ">" THEN j ELSE closing(s, j + 1)
        RECURSIVE no_html(_, _)
        no_html(s, i) ==
            IF i > Len(s) THEN <<>>
            ELSE IF s[i] = "<" /\ closing(s, i + 1) > i + 1
            THEN <<" ">> \o no_html(s, closing(s, i + 1) + 1)
            ELSE <<s[i]>> \o no_html(s, i + 1)
        RECURSIVE compact(_, _)
        compact(s, i) ==
            IF i > Len(s) THEN <<>>
            ELSE IF s[i] \in white
            THEN (IF i > 1 /\ s[i - 1] \in white THEN <<>> ELSE <<" ">>)
                 \o compact(s, i + 1)
            ELSE <<s[i]>> \o compact(s, i + 1)
        stripped == Strip(compact(no_html(no_links(value, 1), 1), 1))
    IN  SubSeq(stripped, 1, IF Len(stripped) < max_chars THEN Len(stripped)
                            ELSE max_chars)

\* PolicyEngine.sanitize_body_payload
SanitizeBodyPayload(payload, max_chars) ==
    [payload EXCEPT !.fields =
        [key \in DOMAIN payload.fields |->
            IF key \in {"body", "snippet"} /\ payload.fields[key].type = "str"
            THEN StrOf(SanitizeText(payload.fields[key].chunks, max_chars))
            ELSE payload.fields[key]]]

\* Fault: the policy items of a single item are not looked at.
ApplySingleItemUnchecked(result) ==
    [raises |-> FALSE,
     payload |-> IF result.data.type = "dict" THEN result.data
                 ELSE [type |-> "dict", fields |-> [value |-> result.data]]]

\* PolicyEngine.apply_single_item_policy: raises set for PolicyBlockedError
ApplySingleItemPolicy(result) ==
    [raises |-> \E k \in DOMAIN result.policy_items :
                   result.policy_items[k].domain \in blocked_domains,
     payload |-> IF result.data.type = "dict" THEN result.data
                 ELSE [type |-> "dict", fields |-> [value |-> result.data]]]

\* The answer of a read: the status, the error code or None, the payload
\* of a 200, and the calls made to the plugin.
ReadError(response, calls) ==
    [status_code |-> response.status_code, code |-> response.body.code,
     payload |-> <<>>, calls |-> calls]

\* get_resource of the routes, after authenticate and require_capability;
\* result is what the plugin returns.
GetResource(result) ==
    LET calls == <<[op |-> "get_resource", view |-> None,
                    limit |-> settings.default_limit, max_chars |-> <<>>]>>
        applied == ApplySingleItemPolicy(result)
    IN  IF applied.raises
        THEN ReadError(ErrorResponse(403, "POLICY_BLOCKED"), calls)
        ELSE [status_code |-> 200, code |-> None, payload |-> applied.payload,
              calls |-> calls]

\* get_resource_view, after authenticate and require_capability: of
\* api/routes.py (path "routes"), which looks at the allowed_views of the
\* resource manifest, and of api/app.py (path "app"), which does not.
\* max_chars is declared Query(ge=1): a smaller one is answered 422 by the
\* framework before the handler runs.
GetResourceView(path, raw_read_enabled, allowed_views, view, max_chars, result) ==
    LET normalized == NormalizeMaxChars(max_chars)
        calls == <<[op |-> "get_resource", view |-> view,
                    limit |-> settings.default_limit,
                    max_chars |-> <<normalized.max_chars>>]>>
        applied == ApplySingleItemPolicy(result)
    IN  IF max_chars # <<>> /\ max_chars[1] < 1
        THEN ReadError(ErrorResponse(422, None), <<>>)
        ELSE IF EnforceViewPolicy(raw_read_enabled, view) # NoResponse
        THEN ReadError(EnforceViewPolicy(raw_read_enabled, view), <<>>)
        ELSE IF view \notin {"headers", "body", "raw"}
        THEN ReadError(ErrorResponse(404, "NOT_FOUND"), <<>>)
        ELSE IF path = "routes" /\ view \notin allowed_views
        THEN ReadError(ErrorResponse(404, "NOT_FOUND"), <<>>)
        ELSE IF normalized.raises
        THEN ReadError(ErrorResponse(400, "VALIDATION_ERROR"), <<>>)
        ELSE IF applied.raises
        THEN ReadError(ErrorResponse(403, "POLICY_BLOCKED"), calls)
        ELSE [status_code |-> 200, code |-> None,
              payload |-> IF view = "body"
                          THEN SanitizeBodyPayload(applied.payload,
                                                   normalized.max_chars)
                          ELSE applied.payload,
              calls |-> calls]

\* GmailDemoPlugin._list_messages without cursor, q and filters: messages
\* is the sequence of the stored messages, each its id and the domain of
\* its sender.
ListMessages(messages, limit) ==
    LET str == <<"0", "1", "2", "3", "4", "5", "6", "7", "8", "9">>
        n == IF limit < Len(messages) THEN limit ELSE Len(messages)
    IN  [data |-> [type |-> "dict",
                   items |-> [i \in 1..n |-> messages[i].id],
                   next_cursor |-> IF limit < Len(messages)
                                   THEN str[limit + 1] ELSE None],
         policy_items |-> [i \in 1..n |->
                             [data_ref |-> <<"items[", str[i], "]">>,
                              domain |-> messages[i].domain]]]

\* list_resource of the gmail messages, after authenticate and
\* require_capability.  limit is declared Query(ge=1): a smaller one is
\* answered 422 by the framework before the handler runs.
ListResource(limit, messages) ==
    LET normalized == NormalizeLimit(limit)
        calls == <<[op |-> "list_resource", view |-> None,
                    limit |-> normalized.limit, max_chars |-> <<>>]>>
        filtered == ApplyCollectionPolicy(ListMessages(messages, normalized.limit))
    IN  IF limit < 1
        THEN ReadError(ErrorResponse(422, None), <<>>)
        ELSE IF normalized.raises
        THEN ReadError(ErrorResponse(400, "VALIDATION_ERROR"), <<>>)
        ELSE [status_code |-> 200, code |-> None,
              payload |-> [items |-> filtered.items,
                           next_cursor |-> filtered.next_cursor],
              calls |-> calls]

----------------------------------------------------------------------------
(* core/sidecar.py *)

\* _request_json, on what urlopen comes back with: a connection failure
\* (URLError) or an HTTP response with its status and the text of its body;
\* a status outside 2xx reaches the caller as HTTPError.  The answer is the
\* object returned, or the exception raised: an APIError with its status,
\* code and message, or the JSONDecodeError of json.loads, which nothing
\* catches.
RequestJson(outcome) ==
    LET returns(value) == [raised |-> None, status_code |-> 0, message |-> None,
                           value |-> value]
        raises(code, status, message) ==
            [raised |-> code, status_code |-> status, message |-> message,
             value |-> <<>>]
        \* json.loads of the texts of the model; "invalid" is no JSON document
        loads(text) ==
            CASE text = "{}" -> [type |-> "dict", fields |-> <<>>]
              [] text = "{\"status\": \"success\"}"
                   -> [type |-> "dict", fields |-> [status |-> "success"]]
              [] text = "[{\"status\": \"success\"}]" -> [type |-> "list", fields |-> <<>>]
              [] text = "null" -> [type |-> "null", fields |-> <<>>]
              [] OTHER -> [type |-> "invalid", fields |-> <<>>]
        detail(default) == IF outcome.body = "" THEN default ELSE outcome.body
    IN  IF outcome.kind = "unreachable"
        THEN raises("SIDECAR_UNREACHABLE", 500, outcome.reason)
        ELSE IF outcome.status = 404
        THEN raises("NOT_FOUND", 404, detail("sidecar route not found"))
        ELSE IF outcome.status \notin 200..299
        THEN raises("SIDECAR_HTTP_ERROR", 500, detail("sidecar request failed"))
        ELSE IF outcome.body = "" THEN returns(<<>>)
        ELSE IF loads(outcome.body).type = "invalid"
        THEN raises("JSONDecodeError", 0, None)
        ELSE IF loads(outcome.body).type = "dict"
        THEN returns(loads(outcome.body).fields)
        ELSE raises("SIDECAR_BAD_RESPONSE", 500,
                    "sidecar response must be a JSON object")

----------------------------------------------------------------------------
\* Calls of the functions that touch no store, each on inputs drawn from
\* bounded sets; probe holds the last call made and what it returned.

\* Authorization headers: absent, of another scheme, "Bearer " followed by
\* nothing, by blanks, by a token with or without blanks around it.
ProbeTokens ==
    {NoToken, <<" ">>, <<"dev-local-token">>, <<" ", "dev-local-token">>,
     <<"limited-token">>, <<"unknown-token">>}

ProbeIdentities == {"", "tailnet://local/dev-local", "tailnet://local/limited"}

ProbeHeaders ==
    {[authorization |-> [scheme |-> "", token |-> NoToken], identity |-> i] :
        i \in ProbeIdentities}
    \cup {[authorization |-> [scheme |-> s, token |-> t], identity |-> i] :
            s \in {"Bearer", "Basic"}, t \in ProbeTokens, i \in ProbeIdentities}

\* Entries of a capability list and capability ids asked for
ProbeEntries ==
    {<<"*">>, <<"gmail", "*">>, <<"gmail">>, CapReply, <<"gmail", "message*">>}

ProbeCapabilityIds ==
    {<<"gmail">>, CapReply, <<"gmail", "message*">>, <<"gmail", "messages">>,
     <<"gmailbox", "read">>, CapRefresh}

\* Settings of a policy engine
ProbeDefaults == {<<>>, "dangerous" :> FALSE, "routine" :> TRUE}

ProbeGlobalPatterns == {{}, {<<"*">>}, {<<"gmail", "*">>}, {CapPlay}}

ProbeBlockPatterns == {{}, {<<"*">>}, {<<"message", "reply">>}}

ProbePlugins ==
    {<<>>}
    \cup {p :> [allow |-> a, require |-> q] :
            p \in {"gmail", "apple_music"},
            a \in ProbeBlockPatterns, q \in ProbeBlockPatterns}

ProbeOverrides ==
    {[global |-> [allow |-> a, require |-> q], plugins |-> b] :
        a \in ProbeGlobalPatterns, q \in ProbeGlobalPatterns, b \in ProbePlugins}

\* Values of an argument key: addresses of a blocked and of another
\* domain, in several spellings, strings that are no address, a number,
\* and lists of these.
ProbeValues ==
    LET blocked == StrOf(<<"eve", "@", "blocked.example">>)
        upper == StrOf(<<"eve", "@", "BLOCKED.EXAMPLE">>)
        padded == StrOf(<<" ", "eve", "@", "Blocked.Example", " ">>)
        other == StrOf(<<"bob", "@", "OK.Example">>)
        named == StrOf(<<"Eve", " ", "<eve", "@", "blocked.example>">>)
        bare == StrOf(<<"blocked.example">>)
        twice == StrOf(<<"eve", "@", "x", "@", "blocked.example">>)
    IN  {blocked, upper, padded, other, named, bare, twice, NotStr,
         ListOf(<<>>), ListOf(<<other, upper>>), ListOf(<<NotStr, other>>),
         ListOf(<<NotStr, blocked>>)}

\* Argument objects: one key, an address key or another one, or two keys
ProbeArgs ==
    {key :> value : key \in AddressKeys \cup {"reply_to"}, value \in ProbeValues}
    \cup {("to" :> StrOf(<<"bob", "@", "OK.Example">>))
             @@ (key :> StrOf(<<"eve", "@", "blocked.example">>)) :
            key \in {"cc", "reply_to"}}

\* Requests admitted or rejected before any store is touched: for the
\* actions of the manifests, and for routes that name no plugin, no action
\* of the plugin, or an action of the plugin under another resource
ProbeRequests ==
    {Request("routes", h, m.plugin_id, m.resource,
             IF m.resource = None THEN None ELSE "msg_allowed",
             m.name, phase, key, args) :
        h \in {FullHeaders, LimitedHeaders, NoHeaders}, m \in Manifests,
        phase \in {"propose", "execute"}, key \in {NoKey, <<"">>, Key1},
        args \in {ArgsA, ArgsBlocked} \cup ProbeArgs}
    \cup
    {Request("routes", h, route[1], route[2],
             IF route[2] = None THEN None ELSE "msg_allowed",
             route[3], phase, key, ArgsA) :
        h \in {FullHeaders, LimitedHeaders, PeerHeaders, NoHeaders},
        route \in {<<"notes", None, "reply">>, <<"gmail", "messages", "wipe">>,
                   <<"gmail", "threads", "reply">>, <<"gmail", None, "reply">>,
                   <<"find_my", "messages", "refresh">>,
                   <<"vault", None, "refresh">>},
        phase \in {"propose", "execute"}, key \in {NoKey, Key1}}

\* Results of list_resource: up to three items, and up to two policy items
\* whose data_ref names an item, names none, or is no reference to an item
ProbeReadResults ==
    LET policy_item ==
            {[data_ref |-> ref, domain |-> domain] :
                ref \in {<<"items[", "0", "]">>, <<"items[", "2", "]">>,
                         <<"items[", "0", "1", "]">>, <<"items[", "5", "]">>,
                         <<"items[", "]">>, <<"items[", "1", "]", " ">>,
                         <<"self">>, <<"items[", "superscript-2", "]">>},
                domain \in {"blocked.example", "ok.example"}}
            \cup {[data_ref |-> <<"items[", "0", "]">>, domain |-> None],
                  [data_ref |-> <<"items[", "1", "]">>,
                   domain |-> "BLOCKED.EXAMPLE"]}
    IN  {[data |-> [type |-> "dict", items |-> items, next_cursor |-> next_cursor],
          policy_items |-> policy_items] :
            items \in {<<>>, <<"m1">>, <<"m1", "m2", "m3">>},
            next_cursor \in {None, "3"},
            policy_items \in {<<>>} \cup {<<p>> : p \in policy_item}
                            \cup {<<p, q>> : p, q \in policy_item}}
        \cup {[data |-> [type |-> type, items |-> <<>>, next_cursor |-> "3"],
               policy_items |-> <<[data_ref |-> <<"items[", "0", "]">>,
                                   domain |-> "blocked.example"]>>] :
                type \in {"dict_no_list", "other"}}

\* Results of get_resource: a mapping with body and snippet, a mapping
\* whose body is no string, something that is no mapping; texts shorter
\* and longer than the caps, with markup, with a link, with whitespace
\* runs; policy items with and without a blocked domain, under any data_ref
ProbeItemResults ==
    LET short == <<"a", "b">>
        long == <<"a", "b", "c", "d", "e", "f", "g">>
        html == <<"<", "p", ">", "h", "e", "l", "l", "o", "<", "/", "p", ">">>
        link == <<"h", "t", "t", "p", ":", "/", "/", "x", ".", "y", " ", "s",
                  "e", "e", " ", "\n", " ", "y", "o", "u">>
        payloads ==
            {[id |-> StrOf(long), body |-> StrOf(body), snippet |-> StrOf(snippet)] :
                body \in {short, long, html, link}, snippet \in {short, long}}
            \cup {[id |-> StrOf(html), body |-> NotStr, raw |-> StrOf(link)]}
        item(ref, domain) == [data_ref |-> ref, domain |-> domain]
    IN  {[data |-> data, policy_items |-> policy_items] :
            data \in {[type |-> "dict", fields |-> fields] : fields \in payloads}
                     \cup {[type |-> "other", fields |-> <<>>]},
            policy_items \in
                {<<>>, <<item(<<"self">>, "ok.example")>>,
                 <<item(<<"self">>, "blocked.example")>>,
                 <<item(<<"self">>, "BLOCKED.EXAMPLE")>>,
                 <<item(<<"self">>, None)>>,
                 <<item(<<"self">>, "ok.example"),
                   item(<<"items[", "5", "]">>, "blocked.example")>>}}

\* Stored messages of the gmail plugin: none, fewer and more than max_limit
ProbeMessages ==
    LET message(id, domain) == [id |-> id, domain |-> domain]
    IN  {<<>>, <<message("m1", "corp.com")>>,
         <<message("m1", "corp.com"), message("m2", "blocked.example"),
           message("m3", "corp.com")>>,
         <<message("m1", "corp.com"), message("m2", "corp.com"),
           message("m3", "corp.com"), message("m4", "corp.com")>>}

Called(op, input, output) ==
    /\ probe = NoProbe
    /\ probe' = [op |-> op, input |-> input, output |-> output]
    /\ UNCHANGED <<tickets, records, pc, req, loc, done, spc, sloc, sdone,
                   served, presented, nreq, nset>>

\* authenticate, on the headers of two requests
CallAuthenticate(required, first, second) ==
    Called("authenticate", <<required, first, second>>,
           <<AuthenticateWith(required, first),
             AuthenticateWith(required, second)>>)

\* AgentPrincipal.can
CallCan(capabilities, capability_id) ==
    Called("can", <<capabilities, capability_id>>,
           <<Can([NoPrincipal EXCEPT !.capabilities = capabilities],
                 capability_id)>>)

\* PolicyEngine(settings).requires_approval
CallRequiresApproval(defaults, overrides, action, phase) ==
    Called("requires_approval", <<defaults, overrides, action, phase>>,
           <<RequiresApprovalWith(PolicyEngine(defaults, overrides),
                                  action, phase)>>)

\* Lines 32-52 of handle_action: the response that ends the request there,
\* NoResponse when the request goes on
CallAdmit(required, r) ==
    Called("admit", <<required, r>>, <<AdmitWith(required, r).response>>)

\* PolicyEngine.apply_collection_policy, on the result of a plugin
CallApplyCollectionPolicy(result) ==
    Called("apply_collection_policy", <<result>>, <<ApplyCollectionPolicy(result)>>)

\* PolicyEngine.normalize_limit
CallNormalizeLimit(limit) ==
    Called("normalize_limit", <<limit>>, <<NormalizeLimit(limit)>>)

\* list_resource of the gmail messages
CallListResource(limit, messages) ==
    Called("list_resource", <<limit, messages>>, <<ListResource(limit, messages)>>)

\* get_resource, on the result of a plugin
CallGetResource(result) ==
    Called("get_resource", <<result>>, <<GetResource(result)>>)

\* get_resource_view, on the result of a plugin
CallGetResourceView(path, raw_read_enabled, allowed_views, view, max_chars, result) ==
    Called("get_resource_view", <<path, raw_read_enabled, allowed_views, view, max_chars, result>>, <<GetResourceView(path, raw_read_enabled, allowed_views, view, max_chars, result)>>)

\* PluginRegistry.resolve_action
CallResolveAction(plugin_id, action_name, resource) ==
    Called("resolve_action", <<plugin_id, action_name, resource>>, <<ResolveAction(plugin_id, action_name, resource)>>)

\* _request_json, on an outcome of the HTTP call to the sidecar
CallRequestJson(outcome) ==
    Called("request_json", <<outcome>>, <<RequestJson(outcome)>>)

\* IdempotencyStore.fetch_or_validate, on the store left by a sequence of
\* save calls: what it returns or raises, and the store after the call
CallFetchOrValidate(writes, scope, idempotency_key, request_hash) ==
    LET saved(store, n) ==
            IF n > Len(writes) THEN store
            ELSE Save(store, writes[n].scope, writes[n].idempotency_key,
                      writes[n].request_hash, 200, writes[n].payload)
        store == saved(saved(<<>>, 1), 2)
        found == FetchOrValidate(store, scope, idempotency_key, request_hash)
    IN  Called("fetch_or_validate",
               <<writes, scope, idempotency_key, request_hash>>,
               <<found,
                 IF found = "hit" THEN Fetch(store, scope, idempotency_key)
                 ELSE NoRecord,
                 IF found = "reused"
                 THEN ErrorResponse(400, "IDEMPOTENCY_KEY_REUSED")
                 ELSE NoResponse,
                 store>>)

NextCalls ==
    \/ probe = NoProbe /\ \E required \in BOOLEAN, first \in ProbeHeaders, second \in ProbeHeaders :
          CallAuthenticate(required, first, second)
    \/ probe = NoProbe /\ \E capabilities \in SUBSET ProbeEntries, capability_id \in ProbeCapabilityIds :
          CallCan(capabilities, capability_id)
    \/ probe = NoProbe /\ \E defaults \in ProbeDefaults, overrides \in ProbeOverrides,
          action \in Manifests, phase \in {"propose", "execute"} :
             CallRequiresApproval(defaults, overrides, action, phase)
    \/ probe = NoProbe /\ \E required \in BOOLEAN, r \in ProbeRequests : CallAdmit(required, r)
    \/ probe = NoProbe /\ \E result \in ProbeReadResults : CallApplyCollectionPolicy(result)
    \/ probe = NoProbe /\ \E limit \in -1..4 : CallNormalizeLimit(limit)
    \/ probe = NoProbe /\ \E limit \in -1..4, messages \in ProbeMessages :
          CallListResource(limit, messages)
    \/ probe = NoProbe /\ \E result \in ProbeItemResults : CallGetResource(result)
    \/ probe = NoProbe /\ \E path \in {"routes", "app"}, raw_read_enabled \in BOOLEAN,
          allowed_views \in {{"headers"}, {"headers", "body"},
                             {"headers", "body", "raw"}},
          view \in {"headers", "body", "raw", "RAW", "full"},
          max_chars \in {<<>>, <<0>>, <<1>>, <<3>>, <<4>>, <<9>>},
          result \in ProbeItemResults :
             CallGetResourceView(path, raw_read_enabled, allowed_views, view,
                                 max_chars, result)
    \/ probe = NoProbe /\ \E plugin_id \in PluginIds \cup {"nowhere"},
          action_name \in {m.name : m \in Manifests} \cup {"vanish"},
          resource \in {None, "messages", "threads"} :
             CallResolveAction(plugin_id, action_name, resource)
    \/ probe = NoProbe /\ \E outcome \in
          {[kind |-> "unreachable", reason |-> "Connection refused", status |-> 0,
            body |-> ""]}
          \cup {[kind |-> "response", reason |-> None, status |-> status,
                 body |-> body] :
                  status \in {200, 201, 304, 400, 404, 500, 503},
                  body \in {"", "{}", "{\"status\": \"success\"}",
                            "[{\"status\": \"success\"}]", "null",
                            "<html>Bad Gateway</html>"}} :
             CallRequestJson(outcome)
    \/ probe = NoProbe /\
          LET scopes == {IdempotencyScope(Reply("execute", Key1, ArgsA)),
                         IdempotencyScope(Play("execute", Key1, ArgsA))}
              hashes == {RequestHash(Reply("execute", Key1, args)) :
                            args \in {ArgsA, ArgsB}}
              write == [scope : scopes, idempotency_key : {Key1, Key2},
                        request_hash : hashes,
                        payload : {SuccessBody(<<"v1">>, <<>>),
                                   SuccessBody(<<"v2">>, <<>>)}]
          IN  \E writes \in {<<>>} \cup {<<a>> : a \in write}
                                 \cup {<<a, b>> : a \in write, b \in write},
                 scope \in scopes, key \in {Key1, Key2}, hash \in hashes :
                    CallFetchOrValidate(writes, scope, key, hash)

SpecCalls == Init /\ [][NextCalls]_vars

----------------------------------------------------------------------------
(* Properties *)

Terminal == {"approved", "denied"}

\* Both workers of the pair have answered, and their requests overlapped.
PairOverlapped ==
    /\ done["w1"].req # NoRequest
    /\ done["w2"].req # NoRequest
    /\ ("w2" \in done["w1"].peers \/ "w1" \in done["w2"].peers)

\* The tickets of the store for the capability and fingerprint of r
TicketsFor(r) ==
    {i \in 1..Len(tickets) :
        /\ tickets[i].capability_id = ActionOf(r).capability_id
        /\ tickets[i].fingerprint = FingerprintOf(r)}

\* The handler under way and the handler last completed, of every worker
Handlings ==
    {[req |-> req[w], calls |-> loc[w].calls, approved |-> loc[w].approved] :
        w \in {v \in Workers : req[v] # NoRequest}}
    \cup {[req |-> done[w].req, calls |-> done[w].calls,
           approved |-> done[w].approved] :
             w \in {v \in Workers : done[v].req # NoRequest}}

\* A step of the serialized specification that answers a request
Answers ==
    /\ pc'["w1"] = "idle"
    /\ (pc["w1"] # "idle" \/ nreq' # nreq)

\* A step of the serialized specification in which set_status returns or
\* raises
SetStatusReturns ==
    /\ spc'["h1"] = "idle"
    /\ (spc["h1"] # "idle" \/ nset' # nset)

\* C1: when two execute requests for the same approval-required action and
\* the same (capability_id, resource_id, args) are handled concurrently and
\* no ticket for that fingerprint has been approved or denied, at most one
\* pending ticket is created and both get 202 with the same
\* approval_ticket_id.
C1_OnePendingTicket ==
    LET d1 == done["w1"]
        d2 == done["w2"]
    IN  (/\ PairOverlapped
         /\ d1.req.phase = "execute" /\ d2.req.phase = "execute"
         /\ ActionOf(d1.req) = ActionOf(d2.req)
         /\ RequiresApproval(ActionOf(d1.req), "execute")
         /\ d1.req.resource_id = d2.req.resource_id
         /\ d1.req.args = d2.req.args
         /\ \A i \in TicketsFor(d1.req) : tickets[i].status = "pending")
        => /\ ~(d1.created # NoTicket /\ d2.created # NoTicket)
           /\ d1.response.status_code = 202
           /\ d2.response.status_code = 202
           /\ d1.response.body.approval_ticket_id
                 = d2.response.body.approval_ticket_id

\* C2: when two keyed execute requests for a mutating action with the same
\* key in the same scope are handled concurrently, they never both miss the
\* idempotency store and both dispatch an execute-phase run_action; when the
\* action needs no approval, either both return the stored result or one
\* returns it and the other fails with 400 IDEMPOTENCY_KEY_REUSED.
C2_NeverBothDispatch ==
    LET d1 == done["w1"]
        d2 == done["w2"]
        Executed(d) == \E i \in DOMAIN d.calls : d.calls[i].phase = "execute"
        stored == Fetch(records, IdempotencyScope(d1.req),
                        d1.req.idempotency_key)
        ReturnsStored(d) ==
            /\ stored # NoRecord
            /\ d.response = [status_code |-> stored.status_code,
                             body |-> stored.payload]
        Reused(d) == d.response = ErrorResponse(400, "IDEMPOTENCY_KEY_REUSED")
    IN  (/\ PairOverlapped
         /\ Keyed(d1.req) /\ Keyed(d2.req)
         /\ IdempotencyScope(d1.req) = IdempotencyScope(d2.req)
         /\ d1.req.idempotency_key = d2.req.idempotency_key)
        => /\ ~(/\ d1.lookup = "miss" /\ d2.lookup = "miss"
                /\ Executed(d1) /\ Executed(d2))
           /\ ~RequiresApproval(ActionOf(d1.req), "execute")
                => \/ ReturnsStored(d1) /\ ReturnsStored(d2)
                   \/ ReturnsStored(d1) /\ Reused(d2)
                   \/ ReturnsStored(d2) /\ Reused(d1)

\* C3: when set_status(id, approved) and set_status(id, denied) overlap on
\* one ticket, exactly one of them succeeds, the other raises
\* APPROVAL_ALREADY_FINALIZED, and the ticket has the status of the one
\* that succeeded.
C3_OneSetStatusWins ==
    LET c1 == sdone["h1"]
        c2 == sdone["h2"]
        Wins(a, b) == /\ a.outcome = "ok"
                      /\ b.outcome = "APPROVAL_ALREADY_FINALIZED"
                      /\ tickets[a.ticket_id].status = a.status
    IN  (/\ c1.outcome # None /\ c2.outcome # None
         /\ ("h2" \in c1.peers \/ "h1" \in c2.peers)
         /\ c1.ticket_id = c2.ticket_id
         /\ {c1.status, c2.status} = Terminal)
        => (Wins(c1, c2) \/ Wins(c2, c1))

\* C11: the idempotency store changes only in the step that answers, with
\* 200, an execute request for a mutating action that carries a non-empty
\* idempotency key, and only under the record key of that request: a
\* request that ends in 202 or in an error, a propose request, a request for
\* a non-mutating action and a request without a key leave it as it was.
C11_SaveOnlyOn200 ==
    [][records' # records =>
         LET d == done'["w1"]
             r == d.req
             k == RecordKey(IdempotencyScope(r), r.idempotency_key)
         IN  /\ Answers
             /\ d.response.status_code = 200
             /\ r.phase = "execute"
             /\ ActionOf(r).mutating
             /\ ~Falsy(r.idempotency_key)
             /\ DOMAIN records' = DOMAIN records \cup {k}
             /\ \A j \in DOMAIN records \ {k} : records'[j] = records[j]]_vars

\* A keyed execute ended in 202 while the store held the record of an
\* earlier execute, and still holds it.
C11_Witness ==
    LET d == done["w1"]
    IN  /\ d.response.status_code = 202
        /\ Keyed(d.req)
        /\ records # <<>>
        /\ RecordKey(IdempotencyScope(d.req), d.req.idempotency_key)
              \notin DOMAIN records

\* C12: a request whose credentials do not authenticate, or whose principal
\* lacks the capability of the action, is answered 401 or 403, no plugin
\* call is made for it, and its handling takes no step that reads or writes
\* the approval store or the idempotency store.
StoreSteps ==
    {"idempotency_lookup", "approval_gate", "dispatch", "idempotency_save"}

Rejected(r) ==
    LET auth == Authenticate(r.headers)
    IN  \/ ~auth.ok
        \/ ~Can(auth.principal, ActionOf(r).capability_id)

C12_RejectedTouchesNothing ==
    [][Answers =>
         LET d == done'["w1"]
         IN  Rejected(d.req)
             => /\ d.response.status_code \in {401, 403}
                /\ d.calls = <<>>
                /\ \A i \in DOMAIN d.trace : d.trace[i] \notin StoreSteps
                /\ tickets' = tickets
                /\ records' = records]_vars

\* The first of the two authentications of the last call, with the headers
\* it was made on
Authenticated ==
    [required |-> probe.input[1], headers |-> probe.input[2],
     outcome |-> probe.output[1]]

\* The token the headers present: what follows "Bearer ", blanks around it
\* aside; NoToken when the header does not begin with "Bearer ".
PresentedToken(headers) ==
    IF headers.authorization.scheme = "Bearer"
    THEN Strip(headers.authorization.token) ELSE NoToken

\* The token records the headers satisfy
RecordsFor(headers) ==
    {record \in TokenRecords :
        /\ PresentedToken(headers) # NoToken
        /\ headers.identity # ""
        /\ record.token = PresentedToken(headers)
        /\ record.tailscale_identity \in {"*", headers.identity}}

\* C13: with require_auth on, authenticate succeeds exactly when the
\* Authorization header is "Bearer " followed by a non-empty token, the
\* identity header is present and non-empty, the token has a record and the
\* record is bound to "*" or to the presented identity; otherwise it fails
\* with 401 UNAUTHORIZED; on success the principal has the agent id and the
\* capabilities of the record and the presented identity.
C13_AuthenticateIff ==
    (probe.op = "authenticate" /\ Authenticated.required)
    => LET h == Authenticated.headers
           a == Authenticated.outcome
       IN  /\ a.ok <=> RecordsFor(h) # {}
           /\ ~a.ok => /\ a.error.status_code = 401
                       /\ a.error.body.code = "UNAUTHORIZED"
           /\ a.ok => \E record \in RecordsFor(h) :
                         a.principal =
                            [agent_id |-> record.agent_id,
                             tailscale_identity |-> h.identity,
                             capabilities |-> record.capabilities]

\* authenticate accepted a token that came with a blank before it, under
\* the identity its record is bound to.
C13_Witness ==
    /\ probe.op = "authenticate"
    /\ Authenticated.required
    /\ Authenticated.outcome.ok
    /\ Authenticated.headers.authorization.token = <<" ", "dev-local-token">>
    /\ Authenticated.headers.identity = "tailnet://local/limited"
    /\ Authenticated.outcome.principal.agent_id = "dev_local"
    /\ Authenticated.outcome.principal.tailscale_identity
         = "tailnet://local/limited"

\* C14: can(cap) is true exactly when the list holds "*", or cap itself, or
\* an entry p.* with cap beginning with "p."; p.* does not grant p, and an
\* entry that does not end in ".*" grants nothing but itself.
BeginsWith(capability_id, p) ==
    /\ Len(capability_id) > Len(p)
    /\ \A i \in DOMAIN p : capability_id[i] = p[i]

C14_CanIff ==
    probe.op = "can"
    => LET capabilities == probe.input[1]
           cap == probe.input[2]
           stars == {e \in capabilities :
                       Len(e) >= 2 /\ e[Len(e)] = "*"}
       IN  /\ probe.output[1]
                <=> \/ <<"*">> \in capabilities
                    \/ cap \in capabilities
                    \/ \E e \in stars :
                          BeginsWith(cap, SubSeq(e, 1, Len(e) - 1))
           /\ (capabilities = {<<"gmail", "*">>} /\ cap = <<"gmail">>)
                => ~probe.output[1]
           /\ (stars = {} /\ <<"*">> \notin capabilities /\ probe.output[1])
                => cap \in capabilities

\* can refused the bare name under the only entry gmail.*, and elsewhere
\* granted a longer name under it.
C14_Witness ==
    /\ probe.op = "can"
    /\ probe.input = << {<<"gmail", "*">>}, <<"gmail">> >>
    /\ ~probe.output[1]
    /\ Can([NoPrincipal EXCEPT !.capabilities = {<<"gmail", "*">>}], CapReply)

\* C15: with require_auth off, authenticate gives every request the
\* synthetic principal with capabilities {"*"} and identity "*", and no
\* request is answered UNAUTHORIZED or CAPABILITY_DENIED.
C15_DisabledAdmitsAll ==
    /\ (probe.op = "authenticate" /\ ~Authenticated.required)
         => /\ Authenticated.outcome.ok
            /\ Authenticated.outcome.principal.capabilities = {<<"*">>}
            /\ Authenticated.outcome.principal.tailscale_identity = "*"
    /\ (probe.op = "admit" /\ ~probe.input[1])
         => probe.output[1].body.code \notin {"UNAUTHORIZED", "CAPABILITY_DENIED"}

\* With require_auth off a request without credentials went on past the
\* capability check.
C15_Witness ==
    /\ probe.op = "admit"
    /\ ~probe.input[1]
    /\ probe.input[2].headers = NoHeaders
    /\ probe.output[1] = NoResponse

\* C16: two authentications that both fail give equal error responses:
\* the same status, the same code and the same message.
C16_FailuresIndistinguishable ==
    (/\ probe.op = "authenticate"
     /\ probe.input[1]
     /\ ~probe.output[1].ok
     /\ ~probe.output[2].ok)
    => probe.output[1].error = probe.output[2].error

\* C17: for an execute request requires_approval is decided by the first
\* rule that matches the capability id: a require pattern of the plugin
\* (true), an allow pattern of the plugin (false), a global require pattern
\* (true), a global allow pattern (false), else the default of the risk
\* tier (false for read_only and routine, true for transactional and
\* dangerous, unless the defaults setting overrides it).  The patterns of
\* the plugin are those configured under the plugin id that is the first
\* segment of the capability id.
ScopedPatterns(overrides, capability_id, kind) ==
    LET plugin_id == capability_id[1]
    IN  IF plugin_id \in DOMAIN overrides.plugins
        THEN {NormalizePluginPattern(plugin_id, x) :
                x \in overrides.plugins[plugin_id][kind]}
        ELSE {}

TierDefault(defaults, risk_tier) ==
    IF risk_tier \in DOMAIN defaults THEN defaults[risk_tier]
    ELSE risk_tier \in {"transactional", "dangerous"}

Proposing ==
    \/ pc["w1"] # "idle" /\ req["w1"].phase = "propose"
    \/ Answers /\ done'["w1"].req.phase = "propose"

C18_ProposeTouchesNoStore ==
    [][Proposing =>
         /\ tickets' = tickets
         /\ records' = records
         /\ Answers =>
               LET d == done'["w1"]
               IN  /\ \A i \in DOMAIN d.trace :
                         d.trace[i] \notin {"idempotency_lookup",
                                            "idempotency_save"}
                   /\ d.lookup = "skipped"
                   /\ d.created = NoTicket
                   /\ d.response.status_code # 202
                   /\ \A defaults \in ProbeDefaults, overrides \in ProbeOverrides :
                         ~RequiresApprovalWith(PolicyEngine(defaults, overrides),
                                               ActionOf(d.req), "propose")]_vars

\* A propose of the transactional gmail reply, sent with a key, was
\* dispatched to the plugin and answered 200 while a ticket and a record
\* of earlier executes were in the stores.
C18_Witness ==
    LET d == done["w1"]
    IN  /\ d.req.phase = "propose"
        /\ ActionOf(d.req).risk_tier = "transactional"
        /\ d.req.idempotency_key = Key1
        /\ d.response.status_code = 200
        /\ Len(d.calls) = 1
        /\ tickets # <<>>

\* The request of the last admission names an action of a plugin and came
\* from a principal that holds the capability of that action.
AdmittedCaller ==
    LET r == probe.input[2]
        auth == Authenticate(r.headers)
    IN  /\ probe.op = "admit"
        /\ probe.input[1]
        /\ auth.ok
        /\ ActionOf(r) # NoAction
        /\ Can(auth.principal, ActionOf(r).capability_id)

\* C19: an execute request of such a caller for an action that requires
\* idempotency, with no key or an empty key, is answered 400
\* IDEMPOTENCY_KEY_REQUIRED; the same request in the propose phase is not
\* rejected for that reason.
C19_KeyRequired ==
    LET r == probe.input[2]
    IN  (/\ AdmittedCaller
         /\ ActionOf(r).requires_idempotency
         /\ r.idempotency_key \in {NoKey, <<"">>})
        => IF r.phase = "execute"
           THEN probe.output[1] = ErrorResponse(400, "IDEMPOTENCY_KEY_REQUIRED")
           ELSE probe.output[1].body.code # "IDEMPOTENCY_KEY_REQUIRED"

\* An execute of the gmail reply with an empty key was answered 400
\* IDEMPOTENCY_KEY_REQUIRED.
C19_Witness ==
    /\ AdmittedCaller
    /\ probe.input[2].phase = "execute"
    /\ ActionOf(probe.input[2]).requires_idempotency
    /\ probe.input[2].idempotency_key = <<"">>
    /\ probe.output[1].status_code = 400
    /\ probe.output[1].body.code = "IDEMPOTENCY_KEY_REQUIRED"

\* C20: a propose request of such a caller for an action that does not
\* support propose is answered 400 ACTION_NOT_PROPOSABLE whatever its key
\* and its arguments.
C20_NotProposable ==
    LET r == probe.input[2]
    IN  (/\ AdmittedCaller
         /\ r.phase = "propose"
         /\ ~ActionOf(r).supports_propose)
        => probe.output[1] = ErrorResponse(400, "ACTION_NOT_PROPOSABLE")

\* A propose of the vault wipe whose arguments name a blocked domain was
\* answered 400 ACTION_NOT_PROPOSABLE.
C20_Witness ==
    /\ AdmittedCaller
    /\ probe.input[2].phase = "propose"
    /\ ~ActionOf(probe.input[2]).supports_propose
    /\ probe.input[2].args = ArgsBlocked
    /\ probe.output[1].body.code = "ACTION_NOT_PROPOSABLE"

\* C21: a request that fails validation (a propose for an action that
\* does not support propose, an execute without a key for an action that
\* requires one, arguments that name a blocked domain) is rejected before
\* dispatch: no run_action call is made for it, neither as a preview nor
\* for real, no ticket is created, and the idempotency store is neither
\* looked up nor written.
FailsValidation(r) ==
    \/ r.phase = "propose" /\ ~ActionOf(r).supports_propose
    \/ /\ r.phase = "execute"
       /\ ActionOf(r).requires_idempotency
       /\ r.idempotency_key \in {NoKey, <<"">>}
    \/ r.args = ArgsBlocked

C21_RejectedBeforeDispatch ==
    [][Answers =>
         LET d == done'["w1"]
         IN  FailsValidation(d.req)
             => /\ d.response.status_code \in {400, 401, 403}
                /\ d.response.body.code \in
                      {"ACTION_NOT_PROPOSABLE", "IDEMPOTENCY_KEY_REQUIRED",
                       "POLICY_BLOCKED", "UNAUTHORIZED", "CAPABILITY_DENIED"}
                /\ d.calls = <<>>
                /\ d.created = NoTicket
                /\ \A i \in DOMAIN d.trace : d.trace[i] \notin StoreSteps
                /\ tickets' = tickets
                /\ records' = records]_vars

\* A keyed execute whose arguments name a blocked domain was answered 403
\* POLICY_BLOCKED without a plugin call, while the store held the record of
\* an earlier execute under the same key.
C21_Witness ==
    LET d == done["w1"]
    IN  /\ d.req.args = ArgsBlocked
        /\ d.req.phase = "execute"
        /\ d.response.status_code = 403
        /\ d.response.body.code = "POLICY_BLOCKED"
        /\ d.calls = <<>>
        /\ records # <<>>

\* C22: in both phases, a request whose arguments hold, under one of the
\* keys to, cc, bcc, principal, counterparty, as the value or as an element
\* of the list, a string that is an address whose lowercased domain is
\* blocked, is rejected, with 403 POLICY_BLOCKED once it has passed the
\* checks made before the domains are looked at (authentication,
\* capability, propose support, required key); values under other keys and
\* values that are no such address never cause that rejection.
BlockedSpellings == {"blocked.example", "BLOCKED.EXAMPLE", "Blocked.Example"}

IsBlockedAddress(value) ==
    /\ value.type = "str"
    /\ \E i \in DOMAIN value.chunks :
          /\ i > 1
          /\ value.chunks[i] = "@"
          /\ \A j \in DOMAIN value.chunks :
                \/ j \in {i - 1, i, i + 1}
                \/ value.chunks[j] = " " /\ (j < i - 1 \/ j > i + 1)
          /\ i + 1 \in DOMAIN value.chunks
          /\ value.chunks[i - 1] \notin {" ", "@"}
          /\ value.chunks[i + 1] \in BlockedSpellings

NamesBlockedDomain(args) ==
    \E key \in {"to", "cc", "bcc", "principal", "counterparty"} \cap DOMAIN args :
       \/ IsBlockedAddress(args[key])
       \/ /\ args[key].type = "list"
          /\ \E i \in DOMAIN args[key].items : IsBlockedAddress(args[key].items[i])

PassesEarlierChecks(r) ==
    /\ ~(r.phase = "propose" /\ ~ActionOf(r).supports_propose)
    /\ ~(/\ r.phase = "execute"
         /\ ActionOf(r).requires_idempotency
         /\ r.idempotency_key \in {NoKey, <<"">>})

C22_BlockedDomainInArgs ==
    AdmittedCaller
    => LET r == probe.input[2]
           answer == probe.output[1]
       IN  /\ NamesBlockedDomain(r.args) => answer # NoResponse
           /\ (NamesBlockedDomain(r.args) /\ PassesEarlierChecks(r))
                => answer = ErrorResponse(403, "POLICY_BLOCKED")
           /\ ~NamesBlockedDomain(r.args) => answer.body.code # "POLICY_BLOCKED"

\* A propose whose only address, the scalar under principal, is written in
\* capitals and between blanks was answered 403 POLICY_BLOCKED.
C22_Witness ==
    /\ AdmittedCaller
    /\ probe.input[2].phase = "propose"
    /\ probe.input[2].args =
          ("principal" :> StrOf(<<" ", "eve", "@", "Blocked.Example", " ">>))
    /\ probe.output[1] = ErrorResponse(403, "POLICY_BLOCKED")

\* C23: whenever a plugin result obtained while handling a request, by the
\* preview call or by the real dispatch, attests a blocked counterparty
\* domain or has status blocked, the request is answered 403 POLICY_BLOCKED,
\* no ticket is created from the result and no idempotency record is saved.
BlockedResult(result) ==
    /\ result.kind = "result"
    /\ \/ result.counterparty_domain \in blocked_domains
       \/ result.status = "blocked"

C23_BlockedResultEnds403 ==
    [][Answers =>
         LET d == done'["w1"]
         IN  (\E i \in DOMAIN d.calls : BlockedResult(d.calls[i].returned))
             => /\ d.response.status_code = 403
                /\ d.response.body.code = "POLICY_BLOCKED"
                /\ d.created = NoTicket
                /\ tickets' = tickets
                /\ records' = records]_vars

\* C24: when requests do not overlap, the approval store never holds two
\* pending tickets with the same capability id and fingerprint, and an
\* execute of an approval-required action that finds a pending and no
\* approved ticket for its capability id, resource id and arguments is
\* answered 202 with the id of that pending ticket, whatever its key, and
\* creates no ticket.  (The preview call returns: a preview that raises
\* ends the request with that error.)
C24_OnePendingSerialized ==
    [][/\ \A i \in DOMAIN tickets', j \in DOMAIN tickets' :
             (/\ tickets'[i].status = "pending"
              /\ tickets'[j].status = "pending"
              /\ tickets'[i].capability_id = tickets'[j].capability_id
              /\ tickets'[i].fingerprint = tickets'[j].fingerprint)
             => i = j
       /\ Answers =>
             LET d == done'["w1"]
                 r == d.req
                 pending == {i \in TicketsFor(r) : tickets[i].status = "pending"}
                 approved == {i \in TicketsFor(r) : tickets[i].status = "approved"}
             IN  (/\ r.phase = "execute"
                  /\ pending # {}
                  /\ approved = {}
                  /\ d.lookup # "reused"
                  /\ \A i \in DOMAIN d.calls : d.calls[i].returned.kind = "result")
                 => /\ d.response.status_code = 202
                    /\ d.response.body.approval_ticket_id \in pending
                    /\ Len(d.calls) = 1
                    /\ tickets' = tickets]_vars

\* An execute under the second key was answered 202 with the ticket that
\* an execute of the same arguments under the first key had created.
C24_Witness ==
    LET d == done["w1"]
    IN  /\ d.req = Reply("execute", Key2, ArgsA)
        /\ d.response.status_code = 202
        /\ d.created = NoTicket
        /\ d.response.body.approval_ticket_id = 1
        /\ Len(tickets) = 1
        /\ <<IdempotencyScope(d.req), Key1, RequestHash(d.req)>> \in presented

\* C25: a collection read answers with the items of the plugin, in their
\* order, without every item whose index N is named by a policy item with
\* data_ref items[N] and a blocked counterparty_domain; a policy item with
\* an index out of range or with another data_ref removes nothing, and
\* next_cursor is the one of the plugin.
NamesIndex(data_ref, idx) ==
    LET digits == <<"0", "1", "2", "3", "4", "5", "6", "7", "8", "9">>
        text == SubSeq(data_ref, 2, Len(data_ref) - 1)
        value(c) == (CHOOSE d \in DOMAIN digits : digits[d] = c) - 1
    IN  /\ Len(data_ref) >= 3
        /\ data_ref[1] = "items[" /\ data_ref[Len(data_ref)] = "]"
        /\ \A i \in DOMAIN text : \E d \in DOMAIN digits : digits[d] = text[i]
        /\ \/ Len(text) = 1 /\ value(text[1]) = idx
           \/ Len(text) = 2 /\ 10 * value(text[1]) + value(text[2]) = idx

C25_CollectionFiltered ==
    probe.op = "apply_collection_policy" /\ probe.input[1].data.type = "dict"
    => LET result == probe.input[1]
           items == result.data.items
           gone == {i \in DOMAIN items :
                      \E k \in DOMAIN result.policy_items :
                         /\ NamesIndex(result.policy_items[k].data_ref, i - 1)
                         /\ result.policy_items[k].domain \in blocked_domains}
           kept == {i \in DOMAIN items : i \notin gone}
           answer == probe.output[1]
       IN  /\ answer.raised = None
           /\ answer.next_cursor = result.data.next_cursor
           /\ Len(answer.items) = Cardinality(kept)
           /\ \A i \in DOMAIN answer.items :
                 answer.items[i]
                   = items[CHOOSE j \in kept :
                              Cardinality({h \in kept : h < j}) = i - 1]

\* A read of a single item that reached the plugin: the result the plugin
\* gave, the view asked for (None without one) and the answer.
ItemRead == probe.op \in {"get_resource", "get_resource_view"} /\ probe.output[1].calls # <<>>
ItemResult == probe.input[Len(probe.input)]
ItemView == probe.output[1].calls[1].view
ItemAnswer == probe.output[1]

AttestsBlocked(result) ==
    \E k \in DOMAIN result.policy_items :
        result.policy_items[k].domain \in blocked_domains

MappingOf(data) ==
    IF data.type = "dict" THEN data
    ELSE [type |-> "dict", fields |-> [value |-> data]]

\* C26 as stated: a single-item or view read whose result has a policy
\* item with a blocked counterparty_domain is answered 403 POLICY_BLOCKED
\* without data of the plugin; any other one returns the data as it is when
\* it is a mapping and as {value: data} when it is not.
C26_SingleItemAsIs ==
    ItemRead
    => IF AttestsBlocked(ItemResult)
       THEN /\ ItemAnswer.status_code = 403
            /\ ItemAnswer.code = "POLICY_BLOCKED"
            /\ ItemAnswer.payload = <<>>
       ELSE /\ ItemAnswer.status_code = 200
            /\ ItemAnswer.payload = MappingOf(ItemResult.data)

\* C26 amended: as stated for the reads without a view and with the views
\* headers and raw; a read with view body returns the mapping with its
\* string-valued fields body and snippet replaced by strings and every
\* other field as it is.
C26_SingleItemPolicy ==
    ItemRead
    => IF AttestsBlocked(ItemResult)
       THEN /\ ItemAnswer.status_code = 403
            /\ ItemAnswer.code = "POLICY_BLOCKED"
            /\ ItemAnswer.payload = <<>>
       ELSE /\ ItemAnswer.status_code = 200
            /\ IF ItemView # "body"
               THEN ItemAnswer.payload = MappingOf(ItemResult.data)
               ELSE LET given == MappingOf(ItemResult.data).fields
                        answered == ItemAnswer.payload.fields
                    IN  /\ ItemAnswer.payload.type = "dict"
                        /\ DOMAIN answered = DOMAIN given
                        /\ \A key \in DOMAIN given :
                              IF key \in {"body", "snippet"} /\ given[key].type = "str"
                              THEN answered[key].type = "str"
                              ELSE answered[key] = given[key]

\* A read without a view, whose result held an unblocked policy item under
\* "self" and a blocked one under another data_ref, was answered 403.
C26_Witness ==
    /\ probe.op = "get_resource"
    /\ Len(probe.input[1].policy_items) = 2
    /\ probe.input[1].policy_items[1].domain = "ok.example"
    /\ probe.input[1].policy_items[2].domain = "blocked.example"
    /\ probe.input[1].data.type = "dict"
    /\ probe.output[1].status_code = 403
    /\ probe.output[1].code = "POLICY_BLOCKED"
    /\ probe.output[1].payload = <<>>

\* C27: a view read (max_chars absent or at least 1) with view raw while
\* raw reads are disabled is answered 403 POLICY_BLOCKED without a call of
\* the plugin, whatever the allowed_views of the resource; a view outside
\* {headers, body, raw} or outside the allowed_views of the resource is
\* answered 404 NOT_FOUND without a call of the plugin.
C27_ViewGate ==
    /\ probe.op = "get_resource_view"
    /\ probe.input[5] \notin {<<0>>}
    => LET raw_read_enabled == probe.input[2]
           allowed_views == probe.input[3]
           view == probe.input[4]
           answer == probe.output[1]
       IN  IF view = "raw" /\ ~raw_read_enabled
           THEN /\ answer.status_code = 403
                /\ answer.code = "POLICY_BLOCKED"
                /\ answer.calls = <<>>
           ELSE view \notin {"headers", "body", "raw"} \cap allowed_views
                => /\ answer.status_code = 404
                   /\ answer.code = "NOT_FOUND"
                   /\ answer.calls = <<>>

C29_BodyCapped ==
    /\ probe.op = "get_resource_view"
    /\ probe.input[4] = "body"
    /\ probe.output[1].status_code = 200
    => LET max_chars == probe.input[5]
           cap == IF max_chars = <<>> THEN settings.default_body_max_chars
                  ELSE IF max_chars[1] > settings.default_body_max_chars
                  THEN settings.default_body_max_chars
                  ELSE max_chars[1]
           given == MappingOf(probe.input[6].data).fields
           answered == probe.output[1].payload.fields
       IN  /\ DOMAIN answered = DOMAIN given
           /\ \A key \in DOMAIN given :
                 IF key \in {"body", "snippet"} /\ given[key].type = "str"
                 THEN /\ answered[key].type = "str"
                      /\ Len(answered[key].chunks) <= cap
                 ELSE answered[key] = given[key]

\* A read with view body and max_chars above default_body_max_chars, of a
\* message whose id, body and snippet are longer than the default, returned
\* body and snippet of the default length and the id as it was.
C29_Witness ==
    /\ probe.op = "get_resource_view"
    /\ probe.input[4] = "body"
    /\ probe.input[5] = <<9>>
    /\ probe.input[6].data.type = "dict"
    /\ probe.output[1].status_code = 200
    /\ LET given == probe.input[6].data.fields
           answered == probe.output[1].payload.fields
       IN  /\ "snippet" \in DOMAIN given
           /\ Len(given.body.chunks) > settings.default_body_max_chars
           /\ Len(given.snippet.chunks) > settings.default_body_max_chars
           /\ Len(answered.body.chunks) = settings.default_body_max_chars
           /\ Len(answered.snippet.chunks) = settings.default_body_max_chars
           /\ Len(answered.id.chunks) > settings.default_body_max_chars
           /\ answered.id = given.id

\* C30: resolve_action(plugin_id, action_name, resource) returns an action
\* of the manifest of that plugin with that name and that resource, None
\* matching only an action declared without a resource and a resource never
\* matching such an action; it fails with NOT_FOUND exactly when the plugin
\* is unknown or declares no such action.
C30_ResolveAction ==
    probe.op = "resolve_action"
    => LET plugin_id == probe.input[1]
           action_name == probe.input[2]
           resource == probe.input[3]
           action == probe.output[1]
       IN  IF action = NoAction
           THEN ~\E m \in Manifests : /\ m.plugin_id = plugin_id
                                      /\ m.name = action_name
                                      /\ m.resource = resource
           ELSE /\ action \in Manifests
                /\ action.plugin_id = plugin_id
                /\ action.name = action_name
                /\ action.resource = resource
                /\ (resource = None) = (action.resource = None)

\* The plugin-global action play of apple_music was asked for under the
\* resource messages and not found.
C30_Witness ==
    /\ probe.op = "resolve_action"
    /\ probe.input = <<"apple_music", "play", "messages">>
    /\ probe.output[1] = NoAction

\* C31: every outcome of a call to a sidecar has one of five results: a 2xx
\* response with an object as body returns the object; status 404 raises
\* NOT_FOUND (404); any other status outside 2xx raises SIDECAR_HTTP_ERROR
\* (500) with the body as message; a connection failure raises
\* SIDECAR_UNREACHABLE (500); a 2xx response with a body that is no object
\* raises SIDECAR_BAD_RESPONSE (500).
C31_SidecarOutcomes ==
    probe.op = "request_json"
    => LET outcome == probe.input[1]
           answer == probe.output[1]
           objects == {"{}", "{\"status\": \"success\"}"}
       IN  IF outcome.kind = "unreachable"
           THEN answer.raised = "SIDECAR_UNREACHABLE" /\ answer.status_code = 500
           ELSE IF outcome.status = 404
           THEN answer.raised = "NOT_FOUND" /\ answer.status_code = 404
           ELSE IF outcome.status \notin 200..299
           THEN /\ answer.raised = "SIDECAR_HTTP_ERROR"
                /\ answer.status_code = 500
                /\ outcome.body # "" => answer.message = outcome.body
           ELSE IF outcome.body \in objects
           THEN /\ answer.raised = None
                /\ (outcome.body = "{}") = (answer.value = <<>>)
           ELSE outcome.body # ""
                => answer.raised = "SIDECAR_BAD_RESPONSE" /\ answer.status_code = 500

\* An execute is answered while the store holds an approved ticket for its
\* capability id and fingerprint.
AnswersApproved ==
    /\ Answers
    /\ done'["w1"].req.phase = "execute"
    /\ \E i \in TicketsFor(done'["w1"].req) : tickets[i].status = "approved"

\* An approved ticket stays as it is, and no step adds a ticket while it
\* answers an execute that has an approved ticket.
ApprovedKept ==
    /\ \A i \in DOMAIN tickets :
          tickets[i].status = "approved"
          => i \in DOMAIN tickets' /\ tickets'[i] = tickets[i]
    /\ AnswersApproved => tickets' = tickets

\* C32 as stated: once a ticket for a capability id and fingerprint is
\* approved, every later execute with that capability id, resource id and
\* arguments, under any key and any number of times, is dispatched once, in
\* execute phase, the ticket stays approved and no ticket is created.
C32_ApprovedAlwaysDispatched ==
    [][/\ ApprovedKept
       /\ AnswersApproved
          => /\ Len(done'["w1"].calls) = 1
             /\ done'["w1"].calls[1].phase = "execute"]_vars

\* C32 amended: the same for every such execute that the idempotency lookup
\* does not end (no record under its key, or no key).
C32_ApprovedNeverConsumed ==
    [][/\ ApprovedKept
       /\ AnswersApproved /\ done'["w1"].lookup \notin {"hit", "reused"}
          => /\ Len(done'["w1"].calls) = 1
             /\ done'["w1"].calls[1].phase = "execute"]_vars

\* After a ticket was approved and an execute of its arguments was recorded
\* under one key, an execute of the same arguments under another key was
\* dispatched in execute phase and answered 200, and the store still holds
\* that one ticket, approved.
C32_Witness ==
    /\ done["w1"].req = Reply("execute", Key2, ArgsA)
    /\ done["w1"].response.status_code = 200
    /\ done["w1"].approved = 1
    /\ Len(done["w1"].calls) = 1
    /\ done["w1"].calls[1].phase = "execute"
    /\ Fetch(records, IdempotencyScope(done["w1"].req), Key1) # NoRecord
    /\ Len(tickets) = 1
    /\ tickets[1].status = "approved"

\* An execute is answered by the approval gate (the idempotency lookup did
\* not end it and its preview returned) while every ticket the store holds
\* for its capability id and fingerprint is denied, and there is one.
AnswersDenied ==
    /\ Answers
    /\ done'["w1"].req.phase = "execute"
    /\ done'["w1"].lookup \notin {"hit", "reused"}
    /\ TicketsFor(done'["w1"].req) # {}
    /\ \A i \in TicketsFor(done'["w1"].req) : tickets[i].status = "denied"
    /\ \A n \in DOMAIN done'["w1"].calls :
          done'["w1"].calls[n].returned.kind = "result"

\* C33: a denial is not sticky.  After the tickets for a capability id and
\* fingerprint were denied, the next execute for the pair is answered 202
\* with a fresh pending ticket whose id is none of the denied ones, and a
\* denied ticket stays as it is.
C33_DenialNotSticky ==
    [][/\ \A i \in DOMAIN tickets :
             tickets[i].status = "denied"
             => i \in DOMAIN tickets' /\ tickets'[i] = tickets[i]
       /\ AnswersDenied
          => /\ done'["w1"].response.status_code = 202
             /\ done'["w1"].created \notin DOMAIN tickets
             /\ done'["w1"].created \in DOMAIN tickets'
             /\ tickets'[done'["w1"].created].status = "pending"
             /\ done'["w1"].response.body.approval_ticket_id
                  = done'["w1"].created]_vars

\* The one ticket of the arguments was denied, and the next execute of the
\* arguments was answered 202 with a second ticket, pending.
C33_Witness ==
    /\ done["w1"].req.phase = "execute"
    /\ done["w1"].response.status_code = 202
    /\ done["w1"].response.body.approval_ticket_id = 2
    /\ Len(tickets) = 2
    /\ tickets[1].status = "denied"
    /\ tickets[2].status = "pending"
    /\ tickets[2].fingerprint = tickets[1].fingerprint
    /\ tickets[2].capability_id = tickets[1].capability_id

\* C34: with one request at a time an idempotency record is written once.
\* The store changes only in the step that answers a request whose lookup
\* found no record under its scope and key, that step adds the record of
\* that scope and key, and the request hash, status code and payload of a
\* record the store holds never change.
C34_RecordWrittenOnce ==
    [][/\ \A k \in DOMAIN records :
             k \in DOMAIN records' /\ records'[k] = records[k]
       /\ records' # records
          => /\ Answers
             /\ done'["w1"].lookup = "miss"
             /\ Fetch(records, IdempotencyScope(done'["w1"].req),
                      done'["w1"].req.idempotency_key) = NoRecord
             /\ DOMAIN records' = DOMAIN records \cup
                  {RecordKey(IdempotencyScope(done'["w1"].req),
                             done'["w1"].req.idempotency_key)}]_vars

\* A record was stored under a key, and a later execute under that key
\* with the same arguments was answered from it without a plugin call: the
\* record holds the hash of the request and the response it returned.
C34_Witness ==
    /\ done["w1"].lookup = "hit"
    /\ done["w1"].after200
    /\ done["w1"].calls = <<>>
    /\ \E k \in DOMAIN records :
          /\ records[k].status_code = 200
          /\ records[k].payload = done["w1"].response.body
          /\ records[k].request_hash = RequestHash(done["w1"].req)

\* The approved tickets the store holds for the capability id of the
\* request's action, its resource id and its arguments
ApprovedFor(r) ==
    {i \in 1..Len(tickets) :
        /\ tickets[i].status = "approved"
        /\ tickets[i].capability_id = ActionOf(r).capability_id
        /\ tickets[i].fingerprint =
              ApprovalFingerprint(ActionOf(r).capability_id, r.resource_id,
                                  r.args)}

\* An execute of an action that requires approval is answered after it
\* went through the approval gate.
AnswersGated ==
    /\ Answers
    /\ done'["w1"].req.phase = "execute"
    /\ RequiresApproval(ActionOf(done'["w1"].req), "execute")
    /\ \E n \in DOMAIN done'["w1"].trace : done'["w1"].trace[n] = "approval_gate"

\* C35: what the approval gate does with a request is decided by the
\* capability id, the resource id, the arguments and the ticket store, not
\* by the principal or the idempotency key.  When the store holds an
\* approved ticket for them the request is dispatched in execute phase
\* under that ticket, whoever asks and under whatever key; when it holds
\* none the request is previewed in propose phase and not executed.
C35_GateByFingerprint ==
    [][AnswersGated
       => /\ Len(done'["w1"].calls) = 1
          /\ IF ApprovedFor(done'["w1"].req) # {}
             THEN /\ done'["w1"].approved \in ApprovedFor(done'["w1"].req)
                  /\ done'["w1"].calls[1].phase = "execute"
                  /\ done'["w1"].response.status_code # 202
             ELSE /\ done'["w1"].approved = NoTicket
                  /\ done'["w1"].calls[1].phase = "propose"
                  /\ done'["w1"].response.status_code # 200]_vars

\* Two requests were made.  The agent "dev" presented Key2 and was answered
\* with the one ticket of the store; after its approval the agent "peer"
\* sent the same arguments under Key1 and they were executed under that
\* ticket.
C35_Witness ==
    /\ nreq = 2
    /\ Len(tickets) = 1
    /\ tickets[1].status = "approved"
    /\ \E p \in presented : p[2] = Key2
    /\ done["w1"].req = [Reply("execute", Key1, ArgsA) EXCEPT !.headers = PeerHeaders]
    /\ done["w1"].approved = 1
    /\ done["w1"].created = NoTicket
    /\ done["w1"].response.status_code = 200
    /\ Len(done["w1"].calls) = 1
    /\ done["w1"].calls[1].phase = "execute"

\* An execute is answered by the approval gate while the store holds a
\* pending ticket, and no approved one, for its capability id and
\* fingerprint.
AnswersPending ==
    /\ AnswersGated
    /\ ApprovedFor(done'["w1"].req) = {}
    /\ \E i \in TicketsFor(done'["w1"].req) : tickets[i].status = "pending"

\* C36: while a ticket is pending, every repeated execute makes one more
\* preview call, and when the call returns, the 202 names the pending
\* ticket and carries the summary and the proposed effect stored in it,
\* whatever the new preview returned.  The summary, proposed effect,
\* fingerprint and capability id of a stored ticket never change.
C36_PendingTicketRepeated ==
    [][/\ \A i \in DOMAIN tickets :
             /\ i \in DOMAIN tickets'
             /\ tickets'[i].summary = tickets[i].summary
             /\ tickets'[i].proposed_effect = tickets[i].proposed_effect
             /\ tickets'[i].fingerprint = tickets[i].fingerprint
             /\ tickets'[i].capability_id = tickets[i].capability_id
       /\ AnswersPending
          => /\ Len(done'["w1"].calls) = 1
             /\ done'["w1"].calls[1].phase = "propose"
             /\ tickets' = tickets
             /\ done'["w1"].calls[1].returned.kind = "result"
                => /\ done'["w1"].response.status_code = 202
                   /\ done'["w1"].pending \in TicketsFor(done'["w1"].req)
                   /\ done'["w1"].response.body =
                        NeedsApprovalBody(
                           done'["w1"].pending,
                           tickets[done'["w1"].pending].summary,
                           tickets[done'["w1"].pending].proposed_effect)]_vars

\* A repeated execute found the pending ticket, its preview returned
\* another summary and another proposed effect than the ticket holds, and
\* the 202 carries those of the ticket.
C36_Witness ==
    /\ done["w1"].response.status_code = 202
    /\ done["w1"].pending = 1
    /\ Len(tickets) = 1
    /\ tickets[1].status = "pending"
    /\ Len(done["w1"].calls) = 1
    /\ done["w1"].calls[1].returned.summary # <<>>
    /\ done["w1"].calls[1].returned.summary # tickets[1].summary
    /\ done["w1"].calls[1].returned.proposed_effect # tickets[1].proposed_effect
    /\ done["w1"].response.body.summary = tickets[1].summary
    /\ done["w1"].response.body.proposed_effect = tickets[1].proposed_effect

\* C37: when the preview call of an execute that needs approval and has
\* no approved ticket raises, the request is answered with that error, no
\* ticket is created and the approval store is left as it was.
C37_PreviewErrorNoTicket ==
    [][/\ AnswersGated
       /\ ApprovedFor(done'["w1"].req) = {}
       /\ \E n \in DOMAIN done'["w1"].calls :
             done'["w1"].calls[n].returned.kind = "raise"
       => /\ tickets' = tickets
          /\ done'["w1"].created = NoTicket
          /\ done'["w1"].calls[1].phase = "propose"
          /\ done'["w1"].response = done'["w1"].calls[1].returned.error
          /\ done'["w1"].response.status_code # 202
          /\ records' = records]_vars

\* The first execute of some arguments was previewed, the preview raised,
\* and the approval store is still empty.
C37_Witness ==
    /\ nreq = 1
    /\ pc["w1"] = "idle"
    /\ done["w1"].req.phase = "execute"
    /\ Len(done["w1"].calls) = 1
    /\ done["w1"].calls[1].phase = "propose"
    /\ done["w1"].calls[1].returned.kind = "raise"
    /\ done["w1"].response = OutRaise.error
    /\ tickets = <<>>

\* C38: the action is resolved before the capability is checked.  A
\* request of an authenticated caller that names an unknown plugin, or an
\* action the plugin does not declare under the resource of the route, is
\* answered 404 NOT_FOUND whatever the capabilities of the caller, and 403
\* CAPABILITY_DENIED is the answer only to a request whose action exists
\* and whose capability the caller lacks.
C38_ResolveBeforeAuthorize ==
    probe.op = "admit"
    => LET r == probe.input[2]
           auth == AuthenticateWith(probe.input[1], r.headers)
       IN  /\ auth.ok /\ ActionOf(r) = NoAction
              => probe.output[1] = ErrorResponse(404, "NOT_FOUND")
           /\ probe.output[1].body.code = "CAPABILITY_DENIED"
              => /\ probe.output[1].status_code = 403
                 /\ ActionOf(r) # NoAction
                 /\ ~Can(auth.principal, ActionOf(r).capability_id)

\* The agent "limited", which holds no capability of the gmail plugin, asked
\* for an action gmail does not declare and was answered 404 NOT_FOUND.
C38_Witness ==
    /\ probe.op = "admit"
    /\ probe.input[1]
    /\ probe.input[2].headers = LimitedHeaders
    /\ probe.input[2].plugin_id = "gmail"
    /\ probe.input[2].action_name = "wipe"
    /\ ActionOf(probe.input[2]) = NoAction
    /\ \A m \in Manifests :
          m.plugin_id = "gmail"
          => ~Can(Authenticate(LimitedHeaders).principal, m.capability_id)
    /\ probe.output[1] = ErrorResponse(404, "NOT_FOUND")

\* The save calls of the probed store that name the scope and the key
SavesUnder(scope, idempotency_key) ==
    {n \in DOMAIN probe.input[1] :
        /\ probe.input[1][n].scope = scope
        /\ probe.input[1][n].idempotency_key = idempotency_key}

\* C39: fetch_or_validate leaves the store as it is: after the call the
\* store holds one record for each scope and key saved.  It returns None when
\* nothing was saved under the scope and the key, the record of the last
\* save under them when the request hash is the one saved, and raises
\* IDEMPOTENCY_KEY_REUSED (400) when it is another; what was saved under
\* the same key in another scope changes none of this.
C39_FetchOrValidate ==
    probe.op = "fetch_or_validate"
    => LET writes == probe.input[1]
           under == SavesUnder(probe.input[2], probe.input[3])
           last == CHOOSE n \in under : \A k \in under : k <= n
       IN  /\ Cardinality(DOMAIN probe.output[4]) =
                Cardinality({<<writes[n].scope, writes[n].idempotency_key>> :
                                n \in DOMAIN writes})
           /\ IF under = {}
              THEN /\ probe.output[1] = "miss"
                   /\ probe.output[3] = NoResponse
              ELSE IF writes[last].request_hash = probe.input[4]
              THEN /\ probe.output[1] = "hit"
                   /\ probe.output[2] =
                        [request_hash |-> writes[last].request_hash,
                         status_code |-> 200, payload |-> writes[last].payload]
                   /\ probe.output[3] = NoResponse
              ELSE /\ probe.output[1] = "reused"
                   /\ probe.output[3] =
                        ErrorResponse(400, "IDEMPOTENCY_KEY_REUSED")

\* A record was saved under a key in one scope and then, with another
\* request hash and payload, under the same key in a second scope: the
\* lookup of the first scope with the first hash returns the first record.
C39_Witness ==
    /\ probe.op = "fetch_or_validate"
    /\ Len(probe.input[1]) = 2
    /\ probe.input[1][1].scope = probe.input[2]
    /\ probe.input[1][2].scope # probe.input[2]
    /\ probe.input[1][1].idempotency_key = probe.input[3]
    /\ probe.input[1][2].idempotency_key = probe.input[3]
    /\ probe.input[1][1].request_hash = probe.input[4]
    /\ probe.input[1][2].request_hash # probe.input[4]
    /\ probe.input[1][2].payload # probe.input[1][1].payload
    /\ probe.output[1] = "hit"
    /\ probe.output[2].payload = probe.input[1][1].payload

C5_TerminalStatusIsFinal ==
    [][\A i \in 1..Len(tickets) :
          tickets[i].status \in Terminal
          => /\ i <= Len(tickets')
             /\ tickets'[i].status = tickets[i].status]_vars

\* C6: set_status(id, S) on a ticket that is approved or denied with another
\* status raises APPROVAL_ALREADY_FINALIZED; on a ticket that has status S
\* it returns the ticket; on an unknown id it raises NOT_FOUND; with S
\* outside {approved, denied} it raises VALIDATION_ERROR; in all these cases
\* the store is left as it was.
C6_SetStatusErrors ==
    [][SetStatusReturns =>
         LET c == sdone'["h1"]
             known == c.ticket_id \in 1..Len(tickets)
         IN  /\ c.status \notin Terminal
                  => c.outcome = "VALIDATION_ERROR" /\ tickets' = tickets
             /\ (c.status \in Terminal /\ ~known)
                  => c.outcome = "NOT_FOUND" /\ tickets' = tickets
             /\ (c.status \in Terminal /\ known
                 /\ tickets[c.ticket_id].status = c.status)
                  => /\ c.outcome = "ok"
                     /\ c.returned = c.status
                     /\ tickets' = tickets
             /\ (c.status \in Terminal /\ known
                 /\ tickets[c.ticket_id].status \in Terminal \ {c.status})
                  => /\ c.outcome = "APPROVAL_ALREADY_FINALIZED"
                     /\ tickets' = tickets
             /\ c.outcome # "ok" => tickets' = tickets]_vars

\* set_status was called with the status the ticket already had and
\* returned it.
C6_Witness ==
    LET c == sdone["h1"]
    IN  /\ c.outcome = "ok"
        /\ c.read = "denied"
        /\ c.status = "denied"
        /\ tickets[c.ticket_id].status = "denied"

\* C7: every request runs the steps authenticate, authorize, validate,
\* idempotency lookup, approval gate, dispatch, enforce, idempotency save in
\* this order, and a request that reaches a step has run every earlier
\* step (the idempotency steps being those of keyed requests).
Steps ==
    <<"authenticate", "authorize", "validate", "idempotency_lookup",
      "approval_gate", "dispatch", "enforce", "idempotency_save">>

Rank(step) == CHOOSE k \in DOMAIN Steps : Steps[k] = step

Applies(step, r) ==
    step \in {"idempotency_lookup", "idempotency_save"} => Keyed(r)

C7_StepOrder ==
    LET d == done["w1"]
        named == SelectSeq(d.trace, LAMBDA step : step \in {Steps[k] : k \in DOMAIN Steps})
    IN  d.req # NoRequest
        => /\ \A i \in DOMAIN named, j \in DOMAIN named :
                 i < j => Rank(named[i]) < Rank(named[j])
           /\ \A i \in DOMAIN named, k \in DOMAIN Steps :
                 (k < Rank(named[i]) /\ Applies(Steps[k], d.req))
                 => \E j \in DOMAIN named : named[j] = Steps[k]

\* C8: an execute of an approval-required action, under no key or under a
\* key that has no record, makes one plugin call.  Answered while no
\* approved ticket for its fingerprint is in the store, it gets 202, and a
\* pending ticket for the fingerprint is in the store afterwards with the
\* id of the response; answered while an approved ticket is in the store,
\* the call is an execute-phase call and the response is 200 with the
\* result of that call, also under the key of the request that got 202.
\* (The plugin answers: the responses are those of a call that does not
\* raise and whose result the action policy does not block.)
C8_ApproveThenExecute ==
    [][Answers =>
         LET d == done'["w1"]
             r == d.req
             k == RecordKey(IdempotencyScope(r), r.idempotency_key)
             approved == {i \in TicketsFor(r) : tickets[i].status = "approved"}
             last == d.calls[Len(d.calls)]
             failed == \/ last.returned.kind = "raise"
                       \/ /\ approved # {}
                          /\ EnforceActionPolicy(last.returned) # NoResponse
         IN  (/\ r.phase = "execute"
              /\ Admit(r).response = NoResponse
              /\ RequiresApproval(ActionOf(r), "execute")
              /\ Keyed(r) => k \notin DOMAIN records)
             => /\ Len(d.calls) = 1
                /\ IF failed THEN d.response.status_code \notin {200, 202}
                   ELSE IF approved = {}
                   THEN /\ d.response.status_code = 202
                        /\ d.response.body.approval_ticket_id
                              \in 1..Len(tickets')
                        /\ LET t == tickets'[d.response.body.approval_ticket_id]
                           IN  /\ t.status = "pending"
                               /\ t.capability_id = ActionOf(r).capability_id
                               /\ t.fingerprint = FingerprintOf(r)
                        /\ records' = records
                   ELSE /\ last.phase = "execute"
                        /\ d.response.status_code = 200
                        /\ d.response.body.result = last.returned.result
                        /\ tickets' = tickets]_vars

\* A keyed execute got 200 from the execute-phase call, on a ticket that an
\* earlier execute under the same key had created and that was approved.
C8_Witness ==
    LET d == done["w1"]
    IN  /\ d.req = Reply("execute", Key1, ArgsA)
        /\ d.response.status_code = 200
        /\ d.approved # NoTicket
        /\ tickets[d.approved].status = "approved"
        /\ d.calls[1].phase = "execute"
        /\ d.response.body.result = <<"execute", "v1">>
        /\ <<IdempotencyScope(d.req), Key1, RequestHash(d.req)>> \in presented

\* C9: a keyed execute that arrives after an execute with the same scope,
\* key and request hash completed with 200 is answered with the recorded
\* status and payload, equal to the first such response, makes no plugin
\* call and does not look into the approval store.
C9_ReplayEqualsFirst ==
    \A w \in Workers :
        LET d == done[w]
            first == <<RecordKey(IdempotencyScope(d.req), d.req.idempotency_key),
                       RequestHash(d.req)>>
        IN  (d.req # NoRequest /\ d.after200)
            => /\ d.response = [status_code |-> 200, body |-> served[first]]
               /\ d.calls = <<>>
               /\ d.approved = NoTicket /\ d.pending = NoTicket
               /\ d.created = NoTicket

\* C10 as stated: an execute for a mutating action that presents an
\* idempotency key which an earlier execute in the same scope presented
\* with another request hash gets 400 IDEMPOTENCY_KEY_REUSED, and nothing
\* is dispatched to the plugin.
C10_PresentedKeyRejected ==
    [][Answers =>
         LET d == done'["w1"]
             r == d.req
         IN  (/\ r.phase = "execute"
              /\ ActionOf(r).mutating
              /\ ~Falsy(r.idempotency_key)
              /\ \E p \in presented :
                    /\ p[1] = IdempotencyScope(r)
                    /\ p[2] = r.idempotency_key
                    /\ p[3] # RequestHash(r))
             => /\ d.response = ErrorResponse(400, "IDEMPOTENCY_KEY_REUSED")
                /\ d.calls = <<>>]_vars

\* C10 amended: an authenticated, authorized and valid execute for a
\* mutating action that presents an idempotency key under which the store
\* holds the record of an earlier execute of the same scope (one that
\* completed with 200) with another request hash gets 400
\* IDEMPOTENCY_KEY_REUSED, and nothing is dispatched to the plugin.
C10_RecordedKeyRejected ==
    [][Answers =>
         LET d == done'["w1"]
             r == d.req
             k == RecordKey(IdempotencyScope(r), r.idempotency_key)
         IN  (/\ r.phase = "execute"
              /\ ActionOf(r).mutating
              /\ ~Falsy(r.idempotency_key)
              /\ Admit(r).response = NoResponse
              /\ k \in DOMAIN records
              /\ records[k].request_hash # RequestHash(r))
             => /\ d.response = ErrorResponse(400, "IDEMPOTENCY_KEY_REUSED")
                /\ d.calls = <<>>
                /\ records' = records
                /\ tickets' = tickets]_vars

\* A key recorded with one request hash was presented with another and
\* rejected.
C10_Witness ==
    LET d == done["w1"]
        k == RecordKey(IdempotencyScope(d.req), d.req.idempotency_key)
    IN  /\ d.response = ErrorResponse(400, "IDEMPOTENCY_KEY_REUSED")
        /\ k \in DOMAIN records
        /\ records[k].request_hash # RequestHash(d.req)
        /\ d.calls = <<>>

====
